---- MODULE Spec2Model ----
(***************************************************************************)
(* A model of the Concrete Genius lead runner (src/cg_runner.py): the      *)
(* Contact Ranker (pick_best_emails), the Page Fetcher (fetch_many), the   *)
(* Domain Validator (mx_present), scrape_site and the Run Controller       *)
(* (run); and of the Lead Scorer (src/lead_scoring.py).                    *)
(*                                                                         *)
(* Strings are sequences of atoms.  An atom is a single character, or a    *)
(* unit the code never looks inside ("https://", a host name such as       *)
(* "x.com").  Local parts of emails are spelled character by character,    *)
(* because the code takes their length.                                    *)
(***************************************************************************)
EXTENDS Integers, Sequences, FiniteSets, TLC

\* ------------------------------------------------------------------------
\* Bounds of the model
\* ------------------------------------------------------------------------
MaxEmails == 4

\* ------------------------------------------------------------------------
\* Program constants (src/cg_runner.py, Config)
\* ------------------------------------------------------------------------
ROLE_EMAILS ==
    { <<"i","n","f","o">>, <<"s","a","l","e","s">>, <<"o","f","f","i","c","e">>,
      <<"c","o","n","t","a","c","t">>, <<"a","d","m","i","n">>,
      <<"s","u","p","p","o","r","t">>, <<"h","e","l","l","o">>,
      <<"e","n","q","u","i","r","i","e","s">>, <<"s","e","r","v","i","c","e">> }

MAX_EMAILS_PER_DOMAIN == 3

\* ------------------------------------------------------------------------
\* String helpers (Python str methods the code uses)
\* ------------------------------------------------------------------------
\* s.endswith(suffix)
EndsWith(s, suffix) ==
    /\ Len(suffix) <= Len(s)
    /\ SubSeq(s, Len(s) - Len(suffix) + 1, Len(s)) = suffix

\* Index of the first atom of s equal to a, Len(s)+1 when there is none.
RECURSIVE FirstIndex(_, _, _)
FirstIndex(s, a, i) ==
    IF i > Len(s) THEN Len(s) + 1
    ELSE IF s[i] = a THEN i
    ELSE FirstIndex(s, a, i + 1)

\* e.split("@")[0]
LocalPart(e) == SubSeq(e, 1, FirstIndex(e, "@", 1) - 1)

\* [x for x in list if P(x)], order kept
RECURSIVE FilterSeq(_, _)
FilterSeq(s, keep) ==
    IF s = <<>> THEN <<>>
    ELSE IF Head(s) \in keep THEN <<Head(s)>> \o FilterSeq(Tail(s), keep)
    ELSE FilterSeq(Tail(s), keep)

SeqToSet(s) == { s[i] : i \in 1..Len(s) }

\* ------------------------------------------------------------------------
\* Contact Ranker
\* ------------------------------------------------------------------------
IsRole(e) == LocalPart(e) \in ROLE_EMAILS

\* score(e): the sort key (role flag, length of the local part)
score_flipped(e) == << IF IsRole(e) THEN 0 ELSE 1, Len(LocalPart(e)) >>
score(e) == << IF IsRole(e) THEN 1 ELSE 0, Len(LocalPart(e)) >>

\* Python tuple comparison k1 <= k2 on the two-element keys
KeyLeq(k1, k2) == k1[1] < k2[1] \/ (k1[1] = k2[1] /\ k1[2] <= k2[2])

\* list.sort(key=score): stable, ascending.  x is inserted after every
\* element whose key is <= its own.
RECURSIVE InsertStable(_, _)
InsertStable(sorted, x) ==
    IF sorted = <<>> THEN <<x>>
    ELSE IF KeyLeq(score(Head(sorted)), score(x))
         THEN <<Head(sorted)>> \o InsertStable(Tail(sorted), x)
         ELSE <<x>> \o sorted

RECURSIVE SortByScore(_)
SortByScore(s) ==
    IF s = <<>> THEN <<>>
    ELSE InsertStable(SortByScore(SubSeq(s, 1, Len(s) - 1)), s[Len(s)])

\* prioritized[:n]
Truncate(s, n) == SubSeq(s, 1, IF Len(s) < n THEN Len(s) ELSE n)

SameDomain(domain, e) == EndsWith(e, <<"@">> \o domain)

\* pick_best_emails(domain, emails); enum is the order in which the two list
\* comprehensions enumerate the set `emails`.
pick_best_emails_untruncated(domain, enum) ==
    LET domain_emails == FilterSeq(enum, { e \in SeqToSet(enum) : SameDomain(domain, e) })
        ext_emails == FilterSeq(enum, SeqToSet(enum) \ SeqToSet(domain_emails))
    IN  SortByScore(domain_emails) \o SortByScore(ext_emails)
pick_best_emails_one_sort(domain, enum) ==
    Truncate(SortByScore(enum), MAX_EMAILS_PER_DOMAIN)
pick_best_emails(domain, enum) ==
    LET domain_emails == FilterSeq(enum, { e \in SeqToSet(enum) : SameDomain(domain, e) })
        ext_emails == FilterSeq(enum, SeqToSet(enum) \ SeqToSet(domain_emails))
        prioritized == SortByScore(domain_emails) \o SortByScore(ext_emails)
    IN  Truncate(prioritized, MAX_EMAILS_PER_DOMAIN)

\* ------------------------------------------------------------------------
\* Inputs of the ranker
\* ------------------------------------------------------------------------
DomX == <<"x.com">>
DomY == <<"y.com">>
NoDomain == <<>>

Mail(local, dom) == local \o <<"@">> \o dom

EmailUniverse ==
    { Mail(<<"j","o">>, DomX), Mail(<<"a","l">>, DomX),
      Mail(<<"j","a","n","e",".","d","o","e">>, DomX),
      Mail(<<"i","n","f","o">>, DomX), Mail(<<"s","a","l","e","s">>, DomX),
      Mail(<<"j","o">>, DomY), Mail(<<"a","n","n","a">>, DomY),
      Mail(<<"i","n","f","o">>, DomY) }

RankDomains == { DomX, DomY, NoDomain }

\* The orders in which a set can be enumerated
Enumerations(S) ==
    { f \in [1..Cardinality(S) -> S] : \A i, j \in 1..Cardinality(S) : i # j => f[i] # f[j] }

\* ------------------------------------------------------------------------
\* More string helpers
\* ------------------------------------------------------------------------
\* s.strip(): leading and trailing blanks removed
RECURSIVE LStrip(_)
LStrip(s) == IF s # <<>> /\ Head(s) = " " THEN LStrip(Tail(s)) ELSE s

RECURSIVE RStrip(_)
RStrip(s) == IF s # <<>> /\ s[Len(s)] = " " THEN RStrip(SubSeq(s, 1, Len(s) - 1)) ELSE s

Strip(s) == RStrip(LStrip(s))

Min(a, b) == IF a < b THEN a ELSE b
Max(a, b) == IF a > b THEN a ELSE b

\* A Python slice bound i clamped into 0..n (negative bounds count from the end)
SliceBound(i, n) == IF i < 0 THEN Max(i + n, 0) ELSE Min(i, n)

\* s[a:b] with 0-based Python bounds
PySlice(s, a, b) == SubSeq(s, SliceBound(a, Len(s)) + 1, SliceBound(b, Len(s)))

\* ------------------------------------------------------------------------
\* URL Normalizer
\* ------------------------------------------------------------------------
Schemes == { "http://", "https://" }
Hosts == { "x.com", "y.com" }

normalize_url(u) ==
    LET t == Strip(u)
    IN  IF t = <<>> THEN <<>>
        ELSE IF Head(t) \in Schemes THEN t
        ELSE <<"https://">> \o t

\* urlparse(url) raises ValueError("Invalid IPv6 URL") on an unbalanced bracket;
\* httpx rejects the same URLs.
InvalidUrl(url) == \E i \in 1..Len(url) : url[i] = "["

\* tldextract: the registrable domain of a URL or host, "" when it has none
RegDomain(s) ==
    LET hs == { i \in 1..Len(s) : s[i] \in Hosts }
    IN  IF hs = {} THEN <<>>
        ELSE << s[CHOOSE i \in hs : \A j \in hs : i <= j] >>

\* Where the site redirects a request to: the www host, with a path.
RedirectTarget(url) == <<"https://", "www.">> \o RegDomain(url) \o <<"/">>

\* final_url_and_domain(start_url).  net.resolved: the GET succeeded;
\* net.redirect: it was redirected.  The result has raised = TRUE when the
\* fallback's urlparse raises.
final_url_and_domain(start_url, net) ==
    LET url == normalize_url(start_url)
    IN  IF net.resolved /\ url # <<>> /\ ~InvalidUrl(url)
        THEN LET final == IF net.redirect THEN RedirectTarget(url) ELSE url
             IN  [raised |-> FALSE, final |-> final, domain |-> RegDomain(final)]
        ELSE IF InvalidUrl(url)
        THEN [raised |-> TRUE, final |-> url, domain |-> <<>>]
        ELSE [raised |-> FALSE, final |-> url, domain |-> RegDomain(url)]

\* ------------------------------------------------------------------------
\* Page Fetcher
\* ------------------------------------------------------------------------
CANDIDATE_PATHS ==
    << "", "contact", "contact-us", "about", "team", "privacy", "impressum",
       "terms", "sitemap.xml" >>

\* scheme and host of a URL: what urljoin keeps when the path is replaced
RECURSIVE SchemeHost(_)
SchemeHost(u) ==
    IF u = <<>> THEN <<>>
    ELSE IF Head(u) = "/" THEN <<>>
    ELSE <<Head(u)>> \o SchemeHost(Tail(u))

\* candidate_urls(base_url)
candidate_urls(base_url) ==
    LET base == normalize_url(base_url)
    IN  [ i \in 1..Len(CANDIDATE_PATHS) |->
            IF CANDIDATE_PATHS[i] = "" THEN SchemeHost(base) \o <<"/">>
            ELSE SchemeHost(base) \o <<"/", CANDIDATE_PATHS[i]>> ]

\* ------------------------------------------------------------------------
\* fetch and fetch_many
\* ------------------------------------------------------------------------
\* What client.get(url) may do: raise (timeout, connection error) or return
\* a response with a status, a content-type header ("" when absent) and a body.
Raises(kind) == [ kind |-> kind, status |-> 0, ctype |-> <<>>, text |-> <<>> ]
Response(status, ctype, text) ==
    [ kind |-> "response", status |-> status, ctype |-> ctype, text |-> text ]

\* Optional[str]
None == [ none |-> TRUE, html |-> <<>> ]
Some(text) == [ none |-> FALSE, html |-> text ]

\* fetch(url), given what client.get(url) does
fetch_any_type(answer) ==
    IF answer.kind = "response" /\ answer.status < 400 THEN Some(answer.text) ELSE None
fetch(answer) ==
    IF answer.kind # "response" THEN None
    ELSE IF answer.status < 400 /\ "text/html" \in SeqToSet(answer.ctype)
         THEN Some(answer.text)
    ELSE None

\* ThreadPoolExecutor(max_workers=max(1, concurrency))
PoolSize_per_url(concurrency) == Len(CANDIDATE_PATHS)
PoolSize(concurrency) == Max(1, concurrency)

\* ------------------------------------------------------------------------
\* Domain Validator
\* ------------------------------------------------------------------------
\* mx_present(domain).  dns_available: the dns import succeeded; lookup is
\* what resolver.resolve does: "answers", "empty" or "error".
mx_present_unguarded(domain, dns_available, lookup) ==
    IF ~dns_available THEN "unknown"
    ELSE IF lookup = "error" THEN "no_mx"
    ELSE IF lookup = "answers" THEN "mx_present"
    ELSE "no_mx"
mx_present(domain, dns_available, lookup) ==
    IF domain = <<>> THEN "unknown"
    ELSE IF ~dns_available THEN "unknown"
    ELSE IF lookup = "error" THEN "no_mx"
    ELSE IF lookup = "answers" THEN "mx_present"
    ELSE "no_mx"

\* ------------------------------------------------------------------------
\* scrape_site
\* ------------------------------------------------------------------------
RowOut(company, url, domain, email, source, status, phone, source_url, reason, qualified, sc) ==
    [ company_name |-> company, url |-> url, domain |-> domain,
      email_final |-> email, email_source |-> source,
      verification_status |-> status, phone |-> phone, source_url |-> source_url,
      reason |-> reason, qualified |-> qualified, product_fit |-> <<>>, score |-> sc ]

\* sorted(collected_phones) for the phone numbers of the model
PhoneOrder == << "+15550001", "+15550002" >>

\* ";".join(sorted(phones))
RECURSIVE JoinPhones(_, _)
JoinPhones(phones, i) ==
    IF i > Len(PhoneOrder) THEN <<>>
    ELSE LET rest == JoinPhones(phones, i + 1)
         IN  IF PhoneOrder[i] \notin phones THEN rest
             ELSE IF rest = <<>> THEN << PhoneOrder[i] >>
             ELSE << PhoneOrder[i], ";" >> \o rest

\* The pages that were fetched and hold HTML (for p, html in ...: if not html: continue)
Fetched(pages) == { i \in 1..Len(pages) : pages[i].html }

\* collected_emails: email -> the first page, in candidate order, that holds it
CollectedEmails(pages) == UNION { pages[i].emails : i \in Fetched(pages) }
CollectedPhones(pages) == UNION { pages[i].phones : i \in Fetched(pages) }
FirstPageOf(pages, e) ==
    CHOOSE i \in Fetched(pages) :
        /\ e \in pages[i].emails
        /\ \A j \in Fetched(pages) : e \in pages[j].emails => i <= j

\* The placeholder row of a site without contacts
NoContactsRow_maybe(company, final, domain) ==
    RowOut(company, final, domain, <<>>, <<>>, "unknown", <<>>, <<>>,
           "no_contacts_found", "maybe", 60)
NoContactsRow(company, final, domain) ==
    RowOut(company, final, domain, <<>>, <<>>, "unknown", <<>>, <<>>,
           "no_contacts_found", "no", 0)

\* The row of one ranked email
EmailRow_flat(company, final, domain, e, mx_status, phone, source_url) ==
    RowOut(company, final, domain, e, <<"mailto/raw/decoded">>, mx_status, phone,
           source_url, "regex_scrape", "yes", 90)
EmailRow(company, final, domain, e, mx_status, phone, source_url) ==
    RowOut(company, final, domain, e, <<"mailto/raw/decoded">>, mx_status, phone,
           source_url, "regex_scrape",
           IF ~IsRole(e) THEN "yes" ELSE "maybe",
           IF ~IsRole(e) THEN 90 ELSE 70)

\* scrape_site(company, start_url).  net is what the network answers during
\* the call: the redirect, the pages (page_html_map after extraction), the
\* order in which a set of emails is enumerated, and the MX lookup.
scrape_site(company, start_url, net) ==
    LET fd == final_url_and_domain(start_url, net)
        final == fd.final
        domain == fd.domain
        urls == candidate_urls(final)
        emails == CollectedEmails(net.pages)
        phones == CollectedPhones(net.pages)
        best_emails == pick_best_emails(domain, FilterSeq(net.set_order, emails))
        mx_status == mx_present(domain, net.dns_available, net.lookup)
    IN  IF fd.raised THEN [raised |-> TRUE, rows |-> <<>>]
        ELSE IF emails = {} /\ phones = {}
        THEN [raised |-> FALSE, rows |-> << NoContactsRow(company, final, domain) >>]
        ELSE IF best_emails # <<>>
        THEN [raised |-> FALSE,
              rows |-> [ k \in 1..Len(best_emails) |->
                           EmailRow(company, final, domain, best_emails[k], mx_status,
                                    JoinPhones(phones, 1),
                                    urls[FirstPageOf(net.pages, best_emails[k])]) ]]
        ELSE [raised |-> FALSE,
              rows |-> << RowOut(company, final, domain, <<>>, <<>>, mx_status,
                                 JoinPhones(phones, 1), final, "phone_only", "maybe", 60) >>]

\* ------------------------------------------------------------------------
\* Lead Scorer (src/lead_scoring.py): the values of a row
\* ------------------------------------------------------------------------
\* A cell of the input CSV: the column may be absent from the file; a cell
\* of a present column holds a text.
AbsentCell == [ present |-> FALSE, text |-> <<>> ]
Cell(text) == [ present |-> TRUE, text |-> text ]

\* The value of a row under a column name, as the code sees it: a missing
\* value (NaN), a string, a number or a boolean.
NaN == [ kind |-> "nan", s |-> <<>>, n |-> 0 ]
StrVal(s) == [ kind |-> "str", s |-> s, n |-> 0 ]
NumVal(n) == [ kind |-> "num", s |-> <<>>, n |-> n ]
BoolVal(b) == [ kind |-> "bool", s |-> <<>>, n |-> IF b THEN 1 ELSE 0 ]

\* The numerals the model's cells hold
Numerals == { <<"79">>, <<"80">> }
NumeralValue(t) == IF t = <<"79">> THEN 79 ELSE 80
NumeralOf(n) == IF n = 79 THEN <<"79">> ELSE <<"80">>

\* df = pd.read_csv(src); a column main() finds missing is added as "".
\* read_csv reads an empty cell as a missing value, True/False as a boolean
\* and a numeral as a number.
ReadCell(c) ==
    IF ~c.present THEN StrVal(<<>>)
    ELSE IF c.text = <<>> THEN NaN
    ELSE IF c.text = <<"True">> THEN BoolVal(TRUE)
    ELSE IF c.text = <<"False">> THEN BoolVal(FALSE)
    ELSE IF c.text \in Numerals THEN NumVal(NumeralValue(c.text))
    ELSE StrVal(c.text)

ScoreColumns ==
    { "product_fit", "email", "email_final", "phone", "verification_status",
      "linkedin_url", "business_type", "profile_confidence", "contact_quality" }

ReadRow(raw) == [ col \in ScoreColumns |-> ReadCell(raw[col]) ]

\* bool(v): a missing value is a float that is not zero, hence true
Truthy(v) ==
    CASE v.kind = "nan" -> TRUE
      [] v.kind = "str" -> v.s # <<>>
      [] v.kind = "num" -> v.n # 0
      [] OTHER -> v.n = 1

\* a or b
PyOr(a, b) == IF Truthy(a) THEN a ELSE b

\* str(v)
Str(v) ==
    CASE v.kind = "nan" -> <<"nan">>
      [] v.kind = "str" -> v.s
      [] v.kind = "num" -> NumeralOf(v.n)
      [] OTHER -> IF v.n = 1 THEN <<"True">> ELSE <<"False">>

\* s.lower(), on the atoms the model's cells hold
LowerAtom(a) ==
    CASE a = "True" -> "true"
      [] a = "False" -> "false"
      [] a = "Yes" -> "yes"
      [] a = "Valid" -> "valid"
      [] a = "AT" -> "at"
      [] a = "DOT" -> "dot"
      [] a = "Jane" -> "jane"
      [] a = "Acme" -> "acme"
      [] OTHER -> a
Lower(s) == [ i \in DOMAIN s |-> LowerAtom(s[i]) ]

\* s.startswith(prefix)
StartsWith(s, prefix) ==
    /\ Len(prefix) <= Len(s)
    /\ SubSeq(s, 1, Len(prefix)) = prefix

\* ------------------------------------------------------------------------
\* Lead Scorer: helpers and scoring
\* ------------------------------------------------------------------------
\* ROLE_EMAILS of lead_scoring.py (a larger lexicon than the runner's)
SCORING_ROLE_EMAILS ==
    ROLE_EMAILS \cup
    { <<"o","r","d","e","r","s">>, <<"j","o","b","s">>, <<"h","r">>,
      <<"c","a","r","e","e","r","s">>, <<"n","o","r","e","p","l","y">> }

GOOD_VERIF_2 == { <<"valid">>, <<"verified">>, <<"deliverable">> }
GOOD_VERIF_1 ==
    { <<"mx_present">>, <<"accept_all">>, <<"catch_all">>, <<"risky">>,
      <<"unknown">>, <<"ok">> }
BAD_VERIF_0 ==
    { <<"invalid">>, <<"undeliverable">>, <<"disposable">>, <<"bad">>,
      <<"rejected">> }

as_bool(v) ==
    IF v.kind = "bool" THEN v.n = 1
    ELSE Lower(Strip(Str(v))) \in { <<"1">>, <<"true">>, <<"yes">>, <<"y">> }

is_role_email(addr) ==
    IF addr = <<>> \/ "@" \notin SeqToSet(addr) THEN FALSE
    ELSE LET local == Lower(LocalPart(addr))
         IN  \/ local \in SCORING_ROLE_EMAILS
             \/ StartsWith(local, <<"i","n","f","o">>)
             \/ StartsWith(local, <<"s","a","l","e","s">>)
             \/ EndsWith(local, <<"s","u","p","p","o","r","t">>)

infer_contact_quality(row) ==
    LET cq == Str(row["contact_quality"])
        email == Strip(Str(PyOr(PyOr(row["email"], row["email_final"]), StrVal(<<>>))))
        phone == Strip(Str(PyOr(row["phone"], StrVal(<<>>))))
    IN  IF cq \in { <<"named_email">>, <<"role_email">>, <<"phone_only">> } THEN cq
        ELSE IF email # <<>>
             THEN (IF is_role_email(email) THEN <<"role_email">> ELSE <<"named_email">>)
        ELSE IF phone # <<>> THEN <<"phone_only">>
        ELSE <<>>

verif_points(status) ==
    LET s == Lower(Strip(Str(PyOr(status, StrVal(<<>>)))))
    IN  IF s \in GOOD_VERIF_2 THEN 2
        ELSE IF s \in GOOD_VERIF_1 THEN 1
        ELSE IF s \in BAD_VERIF_0 THEN 0
        ELSE 0

biztype_bonus(bt) ==
    IF Lower(Str(PyOr(bt, StrVal(<<>>)))) = <<"producer_plant">> THEN 1 ELSE 0

\* int(float(v)): [ok |-> FALSE] when the conversion raises (a text that is
\* no numeral; a missing value, which float() takes and int() refuses)
IntFloat(v) ==
    CASE v.kind = "num" -> [ ok |-> TRUE, n |-> v.n ]
      [] v.kind = "bool" -> [ ok |-> TRUE, n |-> v.n ]
      [] v.kind = "str" /\ Strip(v.s) \in Numerals ->
             [ ok |-> TRUE, n |-> NumeralValue(Strip(v.s)) ]
      [] OTHER -> [ ok |-> FALSE, n |-> 0 ]

\* The sum compute_score accumulates before the cap
ScoreSum(row) ==
    LET cq == infer_contact_quality(row)
        pc == IntFloat(row["profile_confidence"])
    IN  (IF as_bool(row["product_fit"]) THEN 4 ELSE 0)
      + (IF cq = <<"named_email">> THEN 3
         ELSE IF cq = <<"role_email">> THEN 2
         ELSE IF cq = <<"phone_only">> THEN 1 ELSE 0)
      + verif_points(row["verification_status"])
      + (IF Strip(Str(PyOr(row["linkedin_url"], StrVal(<<>>)))) # <<>> THEN 1 ELSE 0)
      + biztype_bonus(row["business_type"])
      + (IF pc.ok /\ pc.n >= 80 THEN 1 ELSE 0)

compute_score_uncapped(row) == ScoreSum(row)
compute_score(row) == Min(ScoreSum(row), 10)

tier(sc) == IF sc >= 8 THEN "A" ELSE IF sc >= 5 THEN "B" ELSE "C"

\* ------------------------------------------------------------------------
\* Email extraction: deobfuscate and extract_emails
\* ------------------------------------------------------------------------
\* A text is a sequence of atoms: a word (a maximal run of \w characters), a
\* run of whitespace (" "), one punctuation character, or one escape of "@".
NonWord ==
    { " ", ".", "-", "@", "[", "]", "(", ")", ",", "<html>", "{}",
      "&#64;", "\\u0040", "%40" }
IsWord(a) == a \notin NonWord

\* The atom at position i, "" past the end
At(s, i) == IF i \in 1..Len(s) THEN s[i] ELSE ""

\* \s* at position i: the position after it
SkipSpace(s, i) == IF At(s, i) = " " THEN i + 1 ELSE i

\* unquote(text).replace('&#64;', '@').replace('\\u0040', '@')
Unescape(s) ==
    [ i \in DOMAIN s |-> IF s[i] \in { "%40", "&#64;", "\\u0040" } THEN "@" ELSE s[i] ]

\* EMAIL_OBF: the six patterns and their replacements, in order.  A bracket
\* pattern is \s* open \s* word \s* close \s*, a plain one is \s+ word \s+;
\* all of them are compiled with re.I.
EMAIL_OBF ==
    << [ open |-> "[", close |-> "]", word |-> "at",  repl |-> "@" ],
       [ open |-> "(", close |-> ")", word |-> "at",  repl |-> "@" ],
       [ open |-> "",  close |-> "",  word |-> "at",  repl |-> "@" ],
       [ open |-> "[", close |-> "]", word |-> "dot", repl |-> "." ],
       [ open |-> "(", close |-> ")", word |-> "dot", repl |-> "." ],
       [ open |-> "",  close |-> "",  word |-> "dot", repl |-> "." ] >>

\* The number of atoms the pattern matches at position i, 0 when it does not
MatchLen(s, i, pat) ==
    IF pat.open = ""
    THEN IF At(s, i) = " " /\ LowerAtom(At(s, i + 1)) = pat.word /\ At(s, i + 2) = " "
         THEN 3 ELSE 0
    ELSE LET a == SkipSpace(s, i)
             b == SkipSpace(s, a + 1)
             c == SkipSpace(s, b + 1)
             d == SkipSpace(s, c + 1)
         IN  IF At(s, a) = pat.open /\ LowerAtom(At(s, b)) = pat.word /\ At(s, c) = pat.close
             THEN d - i ELSE 0

\* pat.sub(repl, s): the matches from the left, not overlapping
RECURSIVE Sub(_, _, _)
Sub(s, i, pat) ==
    IF i > Len(s) THEN <<>>
    ELSE LET n == MatchLen(s, i, pat)
         IN  IF n > 0 THEN << pat.repl >> \o Sub(s, i + n, pat)
             ELSE << s[i] >> \o Sub(s, i + 1, pat)

RECURSIVE SubAll(_, _)
SubAll(s, k) == IF k > Len(EMAIL_OBF) THEN s ELSE SubAll(Sub(s, 1, EMAIL_OBF[k]), k + 1)

\* deobfuscate(text)
deobfuscate(text) == SubAll(Unescape(text), 1)

\* [\w\.-]
InClass(a) == a # "" /\ (IsWord(a) \/ a \in { ".", "-" })

\* The last position of the run of [\w\.-] atoms that starts at i (i - 1: none)
RECURSIVE RunEnd(_, _)
RunEnd(s, i) == IF InClass(At(s, i)) THEN RunEnd(s, i + 1) ELSE i - 1

\* EMAIL_RAW.findall(s) from position i: [\w\.-]+@[\w\.-]+\.\w+, greedy, the
\* matches from the left, not overlapping
RECURSIVE FindAll(_, _)
FindAll(s, i) ==
    IF i > Len(s) THEN {}
    ELSE IF ~InClass(s[i]) THEN FindAll(s, i + 1)
    ELSE LET localEnd == RunEnd(s, i)
             domEnd == RunEnd(s, localEnd + 2)
             dots == { p \in (localEnd + 3)..(domEnd - 1) :
                         s[p] = "." /\ IsWord(s[p + 1]) }
         IN  IF At(s, localEnd + 1) # "@" \/ dots = {}
             THEN FindAll(s, localEnd + 1)
             ELSE LET p == CHOOSE q \in dots : \A r \in dots : r <= q
                  IN  { SubSeq(s, i, p + 1) } \cup FindAll(s, p + 2)

\* extract_emails(html), for a page without mailto: anchors
extract_emails(html) == { Lower(e) : e \in FindAll(deobfuscate(html), 1) }

\* ------------------------------------------------------------------------
\* State
\* ------------------------------------------------------------------------
VARIABLES
    \* Contact Ranker, run on its own
    rk_pc, rk_domain, rk_emails, rk_out,
    rk_again,         \* the list a second invocation on the same input returned
    \* Lead Scorer, run on its own
    sc_pc,            \* "off", "input", "scored", "rescored"
    sc_raw,           \* the cells of the row, as the input CSV holds them
    sc_score, sc_tier,
    sc_prev,          \* the row scored before, with its score and tier
    \* scrape_site and mx_present, run on their own
    st_pc,            \* "off", "seed", "scraped", "validated"
    st_company, st_url,
    st_net,           \* what the network answered during the call
    st_res,           \* what scrape_site returned: [raised, rows]
    st_mx,            \* a call of mx_present: its arguments, the resolver, the result
    \* fetch_many, run on its own
    fm_pc,            \* "off", "call", "returned"
    fm_urls, fm_conc, \* the arguments: urls, concurrency
    fm_state,         \* each fetch: "submitted", "open", "done", "collected"
    fm_answer,        \* what client.get did for each fetch
    fm_results,       \* results: url -> Optional[html]
    fm_keys,          \* the keys of results, in the order the dict holds them
    fm_completed,     \* the fetches in the order as_completed yielded them
    \* extract_emails, run on its own
    ex_pc,            \* "off", "page", "extracted"
    ex_html,          \* the text of the page
    ex_emails,        \* what extract_emails returned
    \* pipeline_runner
    pp_pc,            \* "off", "args", "step", "finished", "exit"
    pp_step,          \* the step main is at (1..9)
    pp_args,          \* the command line and the environment
    pp_files,         \* each file of the pipeline: "absent", or the data it holds
    \* The concurrency of one chunk
    cp_cfg,           \* [site_concurrency, page_concurrency]
    cp_sites,         \* each site: [phase, open, left]
    \* Run Controller
    input,            \* the data rows of the input CSV, as written: <<company_name, url>>
    input_readable,   \* open(input_csv) and the reading of its rows succeed
    file,             \* the output file: [exists, lines]
    pc,               \* "idle", "scrape", "write", "done"
    runs,             \* runs started so far
    cfg,              \* the arguments of the current run
    prospects,        \* the work queue
    start,            \* the loop variable of the chunk loop
    batch,            \* the seeds of the current chunk, with their queue positions
    batch_rows,       \* the rows collected for the current chunk
    header_written,
    idx,              \* sequential mode: the next position of batch
    status,           \* worker-pool mode: the state of each future of the chunk
    \* History of the current run
    file0,            \* the output file when the run started
    window,           \* the seeds inside the offset/limit window
    scraped,          \* the queue positions scrape_site was called for, in order
    raisedQ,          \* the queue positions whose scrape_site raised
    written,          \* the lines successfully written, in order
    write_failed,     \* a chunk write failed
    chunk_no,         \* the number of the current chunk, from 1
    sitesRunning,     \* the <<chunk, position>> being processed
    sitesDone,        \* the <<chunk, position>> whose processing is over
    chunkLen,         \* the number of seeds of each chunk begun
    chunkWritten,     \* whether the write step of each chunk begun is over
    trace             \* the sites processed and the politeness sleeps, in order

rankVars == << rk_pc, rk_domain, rk_emails, rk_out, rk_again >>
ctlVars == << input, input_readable, file, pc, runs, cfg, prospects, start, batch, batch_rows,
              header_written, idx, status >>
histVars == << file0, window, scraped, raisedQ, written, write_failed, chunk_no,
               sitesRunning, sitesDone, chunkLen, chunkWritten, trace >>
scoreVars == << sc_pc, sc_raw, sc_score, sc_tier, sc_prev >>
siteVars == << st_pc, st_company, st_url, st_net, st_res, st_mx >>
fetchVars == << fm_pc, fm_urls, fm_conc, fm_state, fm_answer, fm_results, fm_keys, fm_completed >>
capVars == << cp_cfg, cp_sites >>
extractVars == << ex_pc, ex_html, ex_emails >>
pipeVars == << pp_pc, pp_step, pp_args, pp_files >>
vars == << rankVars, ctlVars, histVars, scoreVars, siteVars, fetchVars, capVars,
          extractVars, pipeVars >>

\* What each component leaves alone
nonCtlVars == << rankVars, scoreVars, siteVars, fetchVars, capVars,
        extractVars, pipeVars >>
nonRankVars == << ctlVars, histVars, scoreVars, siteVars, fetchVars, capVars,
        extractVars, pipeVars >>
nonScoreVars == << ctlVars, histVars, rankVars, siteVars, fetchVars, capVars,
        extractVars, pipeVars >>
nonSiteVars == << ctlVars, histVars, rankVars, scoreVars, fetchVars, capVars,
        extractVars, pipeVars >>
nonFetchVars == << ctlVars, histVars, rankVars, scoreVars, siteVars, capVars,
        extractVars, pipeVars >>
nonCapVars == << ctlVars, histVars, rankVars, scoreVars, siteVars, fetchVars,
        extractVars, pipeVars >>
nonExtractVars == << ctlVars, histVars, rankVars, scoreVars, siteVars, fetchVars,
        capVars, pipeVars >>
nonPipeVars == << ctlVars, histVars, rankVars, scoreVars, siteVars, fetchVars,
        capVars, extractVars >>

\* The Lead Scorer is not running
ScoreParked ==
    /\ sc_pc = "off"
    /\ sc_raw = [ c \in ScoreColumns |-> AbsentCell ]
    /\ sc_score = 0
    /\ sc_tier = ""
    /\ sc_prev = [ raw |-> sc_raw, score |-> 0, tier |-> "" ]

\* scrape_site is not running on its own
SiteParked ==
    /\ st_pc = "off"
    /\ st_company = <<>>
    /\ st_url = <<>>
    /\ st_net = <<>>
    /\ st_res = <<>>
    /\ st_mx = <<>>

\* fetch_many is not running on its own
FetchParked ==
    /\ fm_pc = "off"
    /\ fm_urls = <<>>
    /\ fm_conc = 0
    /\ fm_state = <<>>
    /\ fm_answer = <<>>
    /\ fm_results = <<>>
    /\ fm_keys = <<>>
    /\ fm_completed = <<>>

\* The concurrency of a chunk is not observed
CapParked ==
    /\ cp_cfg = [ site_concurrency |-> 1, page_concurrency |-> 1 ]
    /\ cp_sites = <<>>

\* extract_emails is not running on its own
ExtractParked ==
    /\ ex_pc = "off"
    /\ ex_html = <<>>
    /\ ex_emails = {}

\* pipeline_runner is not running
PipeParked ==
    /\ pp_pc = "off"
    /\ pp_step = 0
    /\ pp_args = <<>>
    /\ pp_files = <<>>

\* ------------------------------------------------------------------------
\* Bounds and inputs of the Run Controller
\* ------------------------------------------------------------------------
MaxSeeds == 2
MaxRuns == 2
MaxChunk == 2
MaxSiteConcurrency == 2
MaxPoolSeeds == 3

Acme == <<"Acme">>
Bolt == <<"Bolt">>

\* The rows an input CSV may hold: a bare host, a padded company with a full
\* URL, a URL urlparse rejects, a blank URL.
InputRows ==
    { << Acme, <<"x.com">> >>,
      << <<"Acme", " ">>, <<"https://", "x.com">> >>,
      << Bolt, <<"[">> >>,
      << Bolt, <<" ">> >> }

InputFiles == UNION { [1..n -> InputRows] : n \in 1..MaxSeeds }

NoLimit == [given |-> FALSE, n |-> 0]
Configs ==
    [ append : BOOLEAN, resume : BOOLEAN,
      chunk_size : {-1, 0} \cup 1..MaxChunk,
      site_concurrency : 1..MaxSiteConcurrency,
      offset : {0, 1},
      limit : { NoLimit, [given |-> TRUE, n |-> 1] } ]

\* What the network may answer while one site is scraped.
NoPage == [html |-> FALSE, emails |-> {}, phones |-> {}]
Page(es, ps) == [html |-> TRUE, emails |-> es, phones |-> ps]
PagesWith(i, pg) == [ k \in 1..Len(CANDIDATE_PATHS) |-> IF k = i THEN pg ELSE NoPage ]

SiteNets(url) ==
    LET d == RegDomain(normalize_url(url))
        info == Mail(<<"i","n","f","o">>, d)
        jo == Mail(<<"j","o">>, d)
    IN  { [resolved |-> FALSE, redirect |-> FALSE, pages |-> PagesWith(0, NoPage),
           set_order |-> <<info, jo>>, dns_available |-> TRUE, lookup |-> "error"],
          [resolved |-> TRUE, redirect |-> TRUE, pages |-> PagesWith(2, Page({info}, {})),
           set_order |-> <<info, jo>>, dns_available |-> TRUE, lookup |-> "answers"],
          [resolved |-> TRUE, redirect |-> FALSE,
           pages |-> PagesWith(1, Page({}, {"+15550001"})),
           set_order |-> <<info, jo>>, dns_available |-> FALSE, lookup |-> "answers"],
          [resolved |-> TRUE, redirect |-> FALSE,
           pages |-> PagesWith(1, Page({info, jo}, {"+15550001"})),
           set_order |-> <<info, jo>>, dns_available |-> TRUE, lookup |-> "empty"] }

\* ------------------------------------------------------------------------
\* The output CSV
\* ------------------------------------------------------------------------
out_fieldnames ==
    << "company_name", "url", "domain", "email_final", "email_source",
       "verification_status", "phone", "source_url", "reason", "qualified",
       "product_fit", "score" >>

Columns == SeqToSet(out_fieldnames)

\* str(score) of the scores the code assigns
IntStr(n) ==
    IF n = 0 THEN <<"0">> ELSE IF n = 60 THEN <<"60">>
    ELSE IF n = 70 THEN <<"70">> ELSE <<"90">>

\* Every cell of a line is a string.  A line also remembers the run and the
\* queue position it was written for (`of`; not part of the file's text).
HeaderLine == [ cells |-> [ c \in Columns |-> <<c>> ], of |-> [run |-> 0, qi |-> 0, seed |-> <<>>] ]

\* w.writerow(asdict(r))
CsvLine(tagged) ==
    LET r == tagged.row
    IN  [ cells |-> [ c \in Columns |->
                        IF c = "score" THEN IntStr(r.score)
                        ELSE IF c \in { "verification_status", "reason", "qualified" }
                             THEN << r[c] >>
                        ELSE r[c] ],
          of |-> tagged.of ]

\* csv.DictReader: the first line names the columns; row.get(name, '')
DictGet(names, line, name) ==
    LET cs == { c \in Columns : names.cells[c] = <<name>> }
    IN  IF cs = {} THEN <<>> ELSE line.cells[CHOOSE c \in cs : TRUE]

\* processed_keys as read from the output file
ReadProcessedKeys(lines) ==
    IF lines = <<>> THEN {}
    ELSE { << Strip(DictGet(lines[1], lines[k], "company_name")),
              Strip(DictGet(lines[1], lines[k], "url")) >> : k \in 2..Len(lines) }

\* ------------------------------------------------------------------------
\* run: reading the input, resume, offset and limit
\* ------------------------------------------------------------------------
\* prospects as read from the input CSV; rows with a blank url are skipped
RECURSIVE ReadProspects(_)
ReadProspects(rows) ==
    IF rows = <<>> THEN <<>>
    ELSE LET company == Strip(Head(rows)[1])
             url == Strip(Head(rows)[2])
         IN  IF url = <<>> THEN ReadProspects(Tail(rows))
             ELSE << <<company, url>> >> \o ReadProspects(Tail(rows))

\* with open(input_csv, ...) as f: ... prospects.append((company, url)).
\* raised: open() or the reading raised, and the exception leaves run.
ReadInput_tolerant(readable, rows) ==
    [ raised |-> FALSE, prospects |-> IF readable THEN ReadProspects(rows) ELSE <<>> ]
ReadInput(readable, rows) ==
    [ raised |-> ~readable, prospects |-> IF readable THEN ReadProspects(rows) ELSE <<>> ]

\* prospects[offset:] then prospects[:limit]
Windowed(ps, c) ==
    LET afterOffset == IF c.offset # 0 THEN PySlice(ps, c.offset, Len(ps)) ELSE ps
    IN  IF c.limit.given THEN PySlice(afterOffset, 0, c.limit.n) ELSE afterOffset

ProcessedKeys(c, f) ==
    IF c.resume /\ f.exists THEN ReadProcessedKeys(f.lines) ELSE {}

\* [(c,u) for (c,u) in prospects if (c,u) not in processed_keys]
WorkQueue(ps, keys) ==
    IF keys # {} THEN FilterSeq(ps, SeqToSet(ps) \ keys) ELSE ps

\* range(0, len(prospects), max(1, chunk_size))
ChunkStep(c) == Max(1, c.chunk_size)

\* batch = prospects[start:start+chunk_size], each seed with its queue position
BatchAt(ps, st, c) ==
    LET lo == SliceBound(st, Len(ps))
        hi == SliceBound(st + c.chunk_size, Len(ps))
    IN  [ k \in 1..Max(hi - lo, 0) |-> [qi |-> lo + k, seed |-> ps[lo + k]] ]

\* ------------------------------------------------------------------------
\* run: one chunk
\* ------------------------------------------------------------------------
SitePool(c) == c.site_concurrency > 1

Tag(rows, b) ==
    [ k \in 1..Len(rows) |-> [row |-> rows[k], of |-> [run |-> runs, qi |-> b.qi, seed |-> b.seed]] ]

ErrorRow(company, url) ==
    RowOut(company, url, <<>>, <<>>, <<>>, "unknown", <<>>, <<>>, "error:site", "no", 0)

\* Dedup within batch: the first row of each (company_name, email_final, phone)
DedupKey(t) == << t.row.company_name, t.row.email_final, t.row.phone >>

RECURSIVE Dedup(_, _)
Dedup(rows, seen) ==
    IF rows = <<>> THEN <<>>
    ELSE IF DedupKey(Head(rows)) \in seen THEN Dedup(Tail(rows), seen)
    ELSE << Head(rows) >> \o Dedup(Tail(rows), seen \cup { DedupKey(Head(rows)) })

\* write_rows(rows, header_written): the lines of the file afterwards
WriteRows(f, rows, c, hw) ==
    LET kept == IF c.append /\ f.exists THEN f.lines ELSE <<>>
        head == IF ~hw THEN << HeaderLine >> ELSE <<>>
    IN  [ exists |-> TRUE,
          lines |-> kept \o head \o [ k \in 1..Len(rows) |-> CsvLine(rows[k]) ] ]

\* The events of a run: scrape_site is called for a queue position; the
\* loop sleeps.
SiteEvent(qi) == [ ev |-> "site", qi |-> qi ]
SleepEvent == [ ev |-> "sleep", qi |-> 0 ]

\* time.sleep(random.uniform(sleep_min, sleep_max)) after the try/except of
\* the sequential loop, whether scrape_site raised or not
PolitenessSleep_on_success(raised) == IF raised THEN <<>> ELSE << SleepEvent >>
PolitenessSleep(raised) == << SleepEvent >>

\* The worker pool is left when every future has completed.
PoolDrained_first_only(st) == st = <<>> \/ \E i \in DOMAIN st : st[i] = "done"
PoolDrained(st) == \A i \in DOMAIN st : st[i] = "done"

Running(st) == { i \in DOMAIN st : st[i] = "running" }

\* ------------------------------------------------------------------------
\* Actions of the Run Controller
\* ------------------------------------------------------------------------
RankParked ==
    /\ rk_pc = "off" /\ rk_domain = <<>> /\ rk_emails = {} /\ rk_out = <<>>
    /\ rk_again = <<>>

NonCtlParked == RankParked /\ ScoreParked /\ SiteParked /\ FetchParked /\ CapParked
    /\ ExtractParked /\ PipeParked

\* The output file before the first run: absent, or left by an earlier use
NoFile == [exists |-> FALSE, lines |-> <<>>]
EarlierFile == [exists |-> TRUE, lines |-> << HeaderLine >>]

DefaultConfig ==
    [ append |-> TRUE, resume |-> TRUE, chunk_size |-> 1, site_concurrency |-> 1,
      offset |-> 0, limit |-> NoLimit ]

Init ==
    /\ NonCtlParked
    /\ \/ input_readable = TRUE /\ input \in InputFiles /\ file = NoFile
       \/ input_readable = FALSE /\ input = <<>> /\ file \in { NoFile, EarlierFile }
    /\ pc = "idle"
    /\ runs = 0
    /\ cfg = DefaultConfig
    /\ prospects = <<>>
    /\ start = 0
    /\ batch = <<>>
    /\ batch_rows = <<>>
    /\ header_written = FALSE
    /\ idx = 1
    /\ status = <<>>
    /\ file0 = file
    /\ window = <<>>
    /\ scraped = <<>>
    /\ raisedQ = {}
    /\ written = <<>>
    /\ write_failed = FALSE
    /\ chunk_no = 0
    /\ sitesRunning = {}
    /\ sitesDone = {}
    /\ chunkLen = <<>>
    /\ chunkWritten = <<>>
    /\ trace = <<>>

\* The top of the chunk loop for loop variable st: the next chunk begins, or
\* the loop and the run are over.  lens and wr are the chunk history so far.
EnterChunk(ps, st, c, lens, wr) ==
    /\ start' = st
    /\ batch_rows' = <<>>
    /\ idx' = 1
    /\ IF st < Len(ps)
       THEN /\ pc' = "scrape"
            /\ batch' = BatchAt(ps, st, c)
            /\ status' = [ k \in 1..Len(BatchAt(ps, st, c)) |-> "pending" ]
            /\ chunk_no' = Len(lens) + 1
            /\ chunkLen' = Append(lens, Len(BatchAt(ps, st, c)))
            /\ chunkWritten' = Append(wr, FALSE)
       ELSE /\ pc' = "done"
            /\ batch' = <<>>
            /\ status' = <<>>
            /\ chunk_no' = Len(lens)
            /\ chunkLen' = lens
            /\ chunkWritten' = wr

\* run(...) up to the chunk loop, with arguments c drawn from cfgs
StartRunWith(cfgs, maxRuns) ==
    /\ pc \in { "idle", "done" }
    /\ runs < maxRuns
    /\ ~ReadInput(input_readable, input).raised
    /\ \E c \in cfgs :
          LET win == Windowed(ReadInput(input_readable, input).prospects, c)
              q == WorkQueue(win, ProcessedKeys(c, file))
          IN  /\ cfg' = c
              /\ prospects' = q
              /\ window' = win
              /\ header_written' = (c.append /\ file.exists)
              /\ EnterChunk(q, 0, c, <<>>, <<>>)
    /\ runs' = runs + 1
    /\ file0' = file
    /\ scraped' = <<>>
    /\ raisedQ' = {}
    /\ written' = <<>>
    /\ write_failed' = FALSE
    /\ sitesRunning' = {}
    /\ sitesDone' = {}
    /\ trace' = <<>>
    /\ UNCHANGED << nonCtlVars, input, input_readable, file >>

StartRun == StartRunWith(Configs, MaxRuns)

\* run(...) when reading the input raises: the exception ends the run.
StartRunFails ==
    /\ pc \in { "idle", "done" }
    /\ ReadInput(input_readable, input).raised
    /\ pc' = "failed"
    /\ runs' = runs + 1
    /\ UNCHANGED << nonCtlVars, input, input_readable, file, cfg, prospects, start, batch,
                    batch_rows, header_written, idx, status, histVars >>

\* Sequential mode: one iteration of `for idx, (company, url) in enumerate(batch, 1)`,
\* the politeness sleep included.
SeqSite ==
    /\ pc = "scrape"
    /\ ~SitePool(cfg)
    /\ idx <= Len(batch)
    /\ LET b == batch[idx]
       IN  /\ \E net \in SiteNets(b.seed[2]) :
                LET res == scrape_site(b.seed[1], b.seed[2], net)
                IN  /\ batch_rows' =
                          batch_rows \o
                          (IF res.raised THEN Tag(<< ErrorRow(b.seed[1], b.seed[2]) >>, b)
                           ELSE Tag(res.rows, b))
                    /\ raisedQ' = IF res.raised THEN raisedQ \cup { b.qi } ELSE raisedQ
                    /\ trace' = trace \o << SiteEvent(b.qi) >> \o PolitenessSleep(res.raised)
           /\ scraped' = Append(scraped, b.qi)
           /\ sitesDone' = sitesDone \cup { << chunk_no, idx >> }
    /\ idx' = idx + 1
    /\ UNCHANGED << nonCtlVars, input, input_readable, file, pc, runs, cfg, prospects, start, batch,
                    header_written, status, file0, window, written, write_failed,
                    chunk_no, sitesRunning, chunkLen, chunkWritten >>

\* Sequential mode: the for loop over the batch is exhausted.
SeqEnd ==
    /\ pc = "scrape"
    /\ ~SitePool(cfg)
    /\ idx > Len(batch)
    /\ pc' = "write"
    /\ UNCHANGED << nonCtlVars, input, input_readable, file, runs, cfg, prospects, start, batch, batch_rows,
                    header_written, idx, status, histVars >>

\* Worker-pool mode: a free worker takes the next submitted site.
WorkerStart ==
    /\ pc = "scrape"
    /\ SitePool(cfg)
    /\ Cardinality(Running(status)) < cfg.site_concurrency
    /\ \E i \in DOMAIN status :
          /\ status[i] = "pending"
          /\ \A j \in DOMAIN status : j < i => status[j] # "pending"
          /\ status' = [status EXCEPT ![i] = "running"]
          /\ scraped' = Append(scraped, batch[i].qi)
          /\ trace' = Append(trace, SiteEvent(batch[i].qi))
          /\ sitesRunning' = sitesRunning \cup { << chunk_no, i >> }
    /\ UNCHANGED << nonCtlVars, input, input_readable, file, pc, runs, cfg, prospects, start, batch,
                    batch_rows, header_written, idx, file0, window, raisedQ, written,
                    write_failed, chunk_no, sitesDone, chunkLen, chunkWritten >>

\* Worker-pool mode: a site completes and as_completed hands its future to
\* the loop: fut.result() extends batch_rows, or raises and is passed over.
WorkerFinish ==
    /\ pc = "scrape"
    /\ SitePool(cfg)
    /\ \E i \in Running(status) :
          LET b == batch[i]
          IN  /\ \E net \in SiteNets(b.seed[2]) :
                    LET res == scrape_site(b.seed[1], b.seed[2], net)
                    IN  /\ batch_rows' =
                              IF res.raised THEN batch_rows ELSE batch_rows \o Tag(res.rows, b)
                        /\ raisedQ' = IF res.raised THEN raisedQ \cup { b.qi } ELSE raisedQ
              /\ status' = [status EXCEPT ![i] = "done"]
              /\ sitesRunning' = sitesRunning \ { << chunk_no, i >> }
              /\ sitesDone' = sitesDone \cup { << chunk_no, i >> }
    /\ UNCHANGED << nonCtlVars, input, input_readable, file, pc, runs, cfg, prospects, start, batch,
                    header_written, idx, file0, window, scraped, written, write_failed,
                    chunk_no, chunkLen, chunkWritten, trace >>

\* Worker-pool mode: as_completed is exhausted and the `with` block is left.
PoolJoin ==
    /\ pc = "scrape"
    /\ SitePool(cfg)
    /\ PoolDrained(status)
    /\ pc' = "write"
    /\ UNCHANGED << nonCtlVars, input, input_readable, file, runs, cfg, prospects, start, batch, batch_rows,
                    header_written, idx, status, histVars >>

\* The end of a chunk: dedup, the write (which succeeds here), the next chunk.
WriteChunk ==
    /\ pc = "write"
    /\ LET deduped == Dedup(batch_rows, {})
       IN  IF deduped # <<>>
           THEN /\ file' = WriteRows(file, deduped, cfg, header_written)
                /\ header_written' = TRUE
                /\ written' = written \o [ k \in 1..Len(deduped) |-> CsvLine(deduped[k]) ]
           ELSE UNCHANGED << file, header_written, written >>
    /\ EnterChunk(prospects, start + ChunkStep(cfg), cfg, chunkLen,
                  [chunkWritten EXCEPT ![chunk_no] = TRUE])
    /\ UNCHANGED << nonCtlVars, input, input_readable, runs, cfg, prospects, file0, window, scraped,
                    raisedQ, write_failed, sitesRunning, sitesDone, trace >>

\* The end of a chunk when open() raises inside write_rows: nothing is written.
WriteChunkFails ==
    /\ pc = "write"
    /\ Dedup(batch_rows, {}) # <<>>
    /\ write_failed' = TRUE
    /\ EnterChunk(prospects, start + ChunkStep(cfg), cfg, chunkLen,
                  [chunkWritten EXCEPT ![chunk_no] = TRUE])
    /\ UNCHANGED << nonCtlVars, input, input_readable, file, runs, cfg, prospects, header_written, file0,
                    window, scraped, raisedQ, written, sitesRunning, sitesDone, trace >>

Next ==
    \/ StartRun
    \/ StartRunFails
    \/ SeqSite
    \/ SeqEnd
    \/ WorkerStart
    \/ WorkerFinish
    \/ PoolJoin
    \/ WriteChunk
    \/ WriteChunkFails

Spec == Init /\ [][Next]_vars

\* ------------------------------------------------------------------------
\* One run over a longer input, every chunk size and pool size, with the
\* default append, resume, offset and limit
\* ------------------------------------------------------------------------
PoolInputRows ==
    { << Acme, <<"x.com">> >>,
      << Acme, <<"https://", "x.com">> >>,
      << Bolt, <<"[">> >> }

PoolInputFiles == UNION { [1..n -> PoolInputRows] : n \in 1..MaxPoolSeeds }

PoolConfigs ==
    { c \in Configs : c.append /\ c.resume /\ c.offset = 0 /\ c.limit = NoLimit }

PoolInit ==
    /\ NonCtlParked
    /\ \/ input_readable = TRUE /\ input \in PoolInputFiles /\ file = NoFile
       \/ input_readable = FALSE /\ input = <<>> /\ file \in { NoFile, EarlierFile }
    /\ pc = "idle"
    /\ runs = 0
    /\ cfg = DefaultConfig
    /\ prospects = <<>>
    /\ start = 0
    /\ batch = <<>>
    /\ batch_rows = <<>>
    /\ header_written = FALSE
    /\ idx = 1
    /\ status = <<>>
    /\ file0 = file
    /\ window = <<>>
    /\ scraped = <<>>
    /\ raisedQ = {}
    /\ written = <<>>
    /\ write_failed = FALSE
    /\ chunk_no = 0
    /\ sitesRunning = {}
    /\ sitesDone = {}
    /\ chunkLen = <<>>
    /\ chunkWritten = <<>>
    /\ trace = <<>>

StartPoolRun == StartRunWith(PoolConfigs, 1)

PoolNext ==
    \/ StartPoolRun
    \/ StartRunFails
    \/ SeqSite
    \/ SeqEnd
    \/ WorkerStart
    \/ WorkerFinish
    \/ PoolJoin
    \/ WriteChunk
    \/ WriteChunkFails

SpecPool == PoolInit /\ [][PoolNext]_vars

\* ------------------------------------------------------------------------
\* The Contact Ranker on its own
\* ------------------------------------------------------------------------
CtlParked ==
    /\ input = <<>>
    /\ input_readable = TRUE
    /\ file = NoFile
    /\ pc = "off"
    /\ runs = 0
    /\ cfg = DefaultConfig
    /\ prospects = <<>>
    /\ start = 0
    /\ batch = <<>>
    /\ batch_rows = <<>>
    /\ header_written = FALSE
    /\ idx = 1
    /\ status = <<>>
    /\ file0 = file
    /\ window = <<>>
    /\ scraped = <<>>
    /\ raisedQ = {}
    /\ written = <<>>
    /\ write_failed = FALSE
    /\ chunk_no = 0
    /\ sitesRunning = {}
    /\ sitesDone = {}
    /\ chunkLen = <<>>
    /\ chunkWritten = <<>>
    /\ trace = <<>>

NonRankParked == CtlParked /\ ScoreParked /\ SiteParked /\ FetchParked /\ CapParked
    /\ ExtractParked /\ PipeParked

RankInit ==
    /\ NonRankParked
    /\ rk_pc = "input"
    /\ rk_domain \in RankDomains
    /\ rk_emails \in { S \in SUBSET EmailUniverse : Cardinality(S) <= MaxEmails }
    /\ rk_out = <<>>
    /\ rk_again = <<>>

\* best_emails = pick_best_emails(domain, set(...))
Rank ==
    /\ rk_pc = "input"
    /\ \E enum \in Enumerations(rk_emails) :
          rk_out' = pick_best_emails(rk_domain, enum)
    /\ rk_pc' = "ranked"
    /\ UNCHANGED << rk_domain, rk_emails, rk_again, nonRankVars >>

\* pick_best_emails is invoked again on the same domain and the same set of
\* emails (another run of the program builds and enumerates the set anew).
RankAgain ==
    /\ rk_pc = "ranked"
    /\ \E enum \in Enumerations(rk_emails) :
          rk_again' = pick_best_emails(rk_domain, enum)
    /\ rk_pc' = "reranked"
    /\ UNCHANGED << rk_domain, rk_emails, rk_out, nonRankVars >>

\* The contacts of the next site arrive.
NextContacts ==
    /\ rk_pc \in { "ranked", "reranked" }
    /\ rk_pc' = "input"
    /\ rk_domain' \in RankDomains
    /\ rk_emails' \in { S \in SUBSET EmailUniverse : Cardinality(S) <= MaxEmails }
    /\ rk_out' = <<>>
    /\ rk_again' = <<>>
    /\ UNCHANGED nonRankVars

RankNext == Rank \/ RankAgain \/ NextContacts

SpecRank == RankInit /\ [][RankNext]_vars

\* ------------------------------------------------------------------------
\* The Lead Scorer on its own
\* ------------------------------------------------------------------------
\* The cells of the rows the model scores
NamedMail == Mail(<<"j","o">>, DomX)
RoleMail == Mail(<<"i","n","f","o">>, DomX)

CellTexts ==
    [ product_fit |-> { Cell(<<>>), Cell(<<"True">>), Cell(<<"False">>), Cell(<<" ","Yes">>) },
      email |-> { AbsentCell, Cell(<<>>), Cell(NamedMail) },
      email_final |-> { AbsentCell, Cell(<<>>), Cell(NamedMail), Cell(RoleMail) },
      phone |-> { Cell(<<>>), Cell(<<"+1 555 0100">>) },
      verification_status |->
          { Cell(<<>>), Cell(<<" ","Valid">>), Cell(<<"mx_present">>), Cell(<<"invalid">>) },
      linkedin_url |-> { AbsentCell, Cell(<<>>), Cell(<<"https://","linkedin.com/in/jo">>) },
      business_type |-> { Cell(<<>>), Cell(<<"producer_plant">>), Cell(<<"contractor">>) },
      profile_confidence |-> { AbsentCell, Cell(<<>>), Cell(<<"79">>), Cell(<<"80">>) },
      contact_quality |-> { AbsentCell, Cell(<<"phone_only">>), Cell(<<"named_email">>) } ]

ScoreRows ==
    [ product_fit : CellTexts.product_fit,
      email : CellTexts.email,
      email_final : CellTexts.email_final,
      phone : CellTexts.phone,
      verification_status : CellTexts.verification_status,
      linkedin_url : CellTexts.linkedin_url,
      business_type : CellTexts.business_type,
      profile_confidence : CellTexts.profile_confidence,
      contact_quality : CellTexts.contact_quality ]

NoRow == [ c \in ScoreColumns |-> AbsentCell ]

NonScoreParked == CtlParked /\ RankParked /\ SiteParked /\ FetchParked /\ CapParked
    /\ ExtractParked /\ PipeParked

ScoreInit ==
    /\ NonScoreParked
    /\ sc_pc = "input"
    /\ sc_raw \in ScoreRows
    /\ sc_score = 0
    /\ sc_tier = ""
    /\ sc_prev = [ raw |-> NoRow, score |-> 0, tier |-> "" ]

\* df["score"] = df.apply(compute_score, axis=1); df["tier"] = df["score"].apply(tier)
ScoreRow ==
    /\ sc_pc = "input"
    /\ sc_score' = compute_score(ReadRow(sc_raw))
    /\ sc_tier' = tier(sc_score')
    /\ sc_pc' = "scored"
    /\ UNCHANGED << sc_raw, sc_prev, nonScoreVars >>

\* The same row with the cell of one column changed is scored.
ScoreChanged ==
    /\ sc_pc = "scored"
    /\ \E c \in ScoreColumns : \E t \in CellTexts[c] \ { sc_raw[c] } :
          sc_raw' = [ sc_raw EXCEPT ![c] = t ]
    /\ sc_prev' = [ raw |-> sc_raw, score |-> sc_score, tier |-> sc_tier ]
    /\ sc_score' = compute_score(ReadRow(sc_raw'))
    /\ sc_tier' = tier(sc_score')
    /\ sc_pc' = "rescored"
    /\ UNCHANGED nonScoreVars

ScoreNext == ScoreRow \/ ScoreChanged

SpecScore == ScoreInit /\ [][ScoreNext]_vars

\* ------------------------------------------------------------------------
\* scrape_site and mx_present on their own
\* ------------------------------------------------------------------------
\* The URLs run passes to scrape_site (stripped, not blank): a bare host, a
\* full URL, a URL urlparse rejects, a URL without a host.
SiteUrls ==
    { <<"x.com">>, <<"https://", "y.com">>, <<"http://", "x.com">>, <<"[">>,
      <<"/", "contact">> }

\* What a fetched page of the site d may hold
PageOptions(d) ==
    { NoPage,
      Page({ Mail(<<"i","n","f","o">>, d) }, {}),
      Page({ Mail(<<"j","o">>, d), Mail(<<"i","n","f","o">>, d) }, { "+15550001" }),
      Page({}, { "+15550001", "+15550002" }),
      Page({ Mail(<<"o","r","d","e","r","s">>, d) }, {}) }

\* What the network may answer while scrape_site(company, url) runs.  A URL
\* without a host, or one that is rejected, is never answered.
ScrapeNets(url) ==
    LET d == RegDomain(normalize_url(url))
        info == Mail(<<"i","n","f","o">>, d)
        jo == Mail(<<"j","o">>, d)
        orders == Mail(<<"o","r","d","e","r","s">>, d)
        reachable == d # <<>> /\ ~InvalidUrl(normalize_url(url))
    IN  { net \in [ resolved : BOOLEAN, redirect : BOOLEAN,
                    pages : { [ k \in 1..Len(CANDIDATE_PATHS) |->
                                  IF k = 1 THEN p1 ELSE IF k = 2 THEN p2 ELSE NoPage ] :
                              p1 \in PageOptions(d), p2 \in PageOptions(d) },
                    set_order : Enumerations({ info, jo, orders }),
                    dns_available : BOOLEAN,
                    lookup : { "answers", "empty", "error" } ] :
            /\ net.redirect => net.resolved
            /\ ~reachable => (~net.resolved /\ \A k \in DOMAIN net.pages : net.pages[k] = NoPage) }

NoNet ==
    [ resolved |-> FALSE, redirect |-> FALSE, pages |-> PagesWith(0, NoPage),
      set_order |-> <<>>, dns_available |-> FALSE, lookup |-> "error" ]

NoAnswer == [ asked |-> FALSE, domain |-> <<>>, dns_available |-> FALSE,
              lookup |-> "error", result |-> "" ]

NonSiteParked == CtlParked /\ RankParked /\ ScoreParked /\ FetchParked /\ CapParked
    /\ ExtractParked /\ PipeParked

SiteInit ==
    /\ NonSiteParked
    /\ st_pc = "seed"
    /\ st_company = Acme
    /\ st_url \in SiteUrls
    /\ st_net = NoNet
    /\ st_res = [ raised |-> FALSE, rows |-> <<>> ]
    /\ st_mx = NoAnswer

\* rows = scrape_site(company, url, page_concurrency=page_concurrency)
Scrape ==
    /\ st_pc = "seed"
    /\ \E net \in ScrapeNets(st_url) :
          /\ st_net' = net
          /\ st_res' = scrape_site(st_company, st_url, net)
    /\ st_pc' = "scraped"
    /\ UNCHANGED << st_company, st_url, st_mx, nonSiteVars >>

\* mx_present(domain), for any domain and any state of the resolver
ValidateDomain ==
    /\ st_pc = "seed"
    /\ \E d \in { <<>>, DomX, DomY } : \E avail \in BOOLEAN :
       \E lookup \in { "answers", "empty", "error" } :
          st_mx' = [ asked |-> TRUE, domain |-> d, dns_available |-> avail,
                     lookup |-> lookup, result |-> mx_present(d, avail, lookup) ]
    /\ st_pc' = "validated"
    /\ UNCHANGED << st_company, st_url, st_net, st_res, nonSiteVars >>

SiteNext == Scrape \/ ValidateDomain

SpecSite == SiteInit /\ [][SiteNext]_vars

\* ------------------------------------------------------------------------
\* One call of fetch_many
\* ------------------------------------------------------------------------
MaxPages == 3

Answers ==
    { Raises("timeout"), Raises("connect_error"),
      Response(200, <<"text/html", ";", "charset=utf-8">>, <<"<html>">>),
      Response(200, <<"text/html">>, <<"jo", "@", "x", ".", "com">>),
      Response(200, <<"application/json">>, <<"{}">>),
      Response(200, <<"Text/HTML">>, <<"<html>">>),
      Response(200, <<>>, <<"<html>">>),
      Response(399, <<"text/html">>,
               <<"info", "@", "x", ".", "com", " ", "jo", " ", "[", "at", "]", " ", "x",
                 ".", "com">>),
      Response(400, <<"text/html">>, <<"<html>">>),
      Response(404, <<"text/html">>, <<"<html>">>) }

NotAsked == Raises("not_asked")

\* The first n candidate pages of a site
PagesOf(n) == SubSeq(candidate_urls(<<"https://", "x.com">>), 1, n)

\* 0 is raised to one worker by max(1, concurrency), as 1 would be
PageConcurrencies == { 0, 2 }

NonFetchParked == CtlParked /\ RankParked /\ ScoreParked /\ SiteParked /\ CapParked
    /\ ExtractParked /\ PipeParked

\* results = {u: None for u in urls}: the keys, in the order of urls
RECURSIVE InitialKeys_from(_, _)
InitialKeys_from(urls, keys) ==
    IF urls = <<>> THEN keys
    ELSE InitialKeys_from(Tail(urls),
                          IF Head(urls) \in SeqToSet(keys) THEN keys
                          ELSE Append(keys, Head(urls)))
InitialKeys_none(urls) == <<>>
InitialKeys(urls) == InitialKeys_from(urls, <<>>)

\* results[u] = value: a new key goes to the end, a known key keeps its place
KeysAfterSet(keys, u) == IF u \in SeqToSet(keys) THEN keys ELSE Append(keys, u)
DictSet(d, u, value) == [ k \in DOMAIN d \cup { u } |-> IF k = u THEN value ELSE d[k] ]

\* fetch_many(urls, concurrency)
FetchInit ==
    /\ NonFetchParked
    /\ fm_pc = "call"
    /\ fm_urls \in { PagesOf(n) : n \in 0..MaxPages }
    /\ fm_conc \in PageConcurrencies
    /\ fm_state = [ i \in 1..Len(fm_urls) |-> "submitted" ]
    /\ fm_answer = [ i \in 1..Len(fm_urls) |-> NotAsked ]
    /\ fm_keys = InitialKeys(fm_urls)
    /\ fm_completed = <<>>
    /\ fm_results = [ u \in SeqToSet(fm_keys) |-> None ]

OpenFetches == { i \in DOMAIN fm_state : fm_state[i] = "open" }

\* A free worker of the executor takes the oldest submitted fetch.
FetchStart ==
    /\ fm_pc = "call"
    /\ Cardinality(OpenFetches) < PoolSize(fm_conc)
    /\ \E i \in DOMAIN fm_state :
          /\ fm_state[i] = "submitted"
          /\ \A j \in DOMAIN fm_state : j < i => fm_state[j] # "submitted"
          /\ fm_state' = [ fm_state EXCEPT ![i] = "open" ]
    /\ UNCHANGED << fm_pc, fm_urls, fm_conc, fm_answer, fm_results, fm_keys, fm_completed, nonFetchVars >>

\* client.get(url) returns or raises; fetch returns.
FetchDone ==
    /\ fm_pc = "call"
    /\ \E i \in OpenFetches : \E a \in Answers :
          /\ fm_state' = [ fm_state EXCEPT ![i] = "done" ]
          /\ fm_answer' = [ fm_answer EXCEPT ![i] = a ]
    /\ UNCHANGED << fm_pc, fm_urls, fm_conc, fm_results, fm_keys, fm_completed, nonFetchVars >>

\* for fut in as_completed(future_map): results[u] = fut.result()
Collect ==
    /\ fm_pc = "call"
    /\ \E i \in DOMAIN fm_state :
          /\ fm_state[i] = "done"
          /\ fm_state' = [ fm_state EXCEPT ![i] = "collected" ]
          /\ fm_results' = DictSet(fm_results, fm_urls[i], fetch(fm_answer[i]))
          /\ fm_keys' = KeysAfterSet(fm_keys, fm_urls[i])
          /\ fm_completed' = Append(fm_completed, i)
    /\ UNCHANGED << fm_pc, fm_urls, fm_conc, fm_answer, nonFetchVars >>

\* return results
FetchReturn ==
    /\ fm_pc = "call"
    /\ \A i \in DOMAIN fm_state : fm_state[i] = "collected"
    /\ fm_pc' = "returned"
    /\ UNCHANGED << fm_urls, fm_conc, fm_state, fm_answer, fm_results, fm_keys, fm_completed, nonFetchVars >>

FetchNext == FetchStart \/ FetchDone \/ Collect \/ FetchReturn

SpecFetch == FetchInit /\ [][FetchNext]_vars

\* ------------------------------------------------------------------------
\* The sites of one chunk and their requests in flight
\* ------------------------------------------------------------------------
MaxCapSites == 3
MaxPageConcurrency == 2

\* --site-concurrency and --page-concurrency are integers; 0 is accepted
CapConfigs ==
    [ site_concurrency : 0..MaxSiteConcurrency,
      page_concurrency : 0..MaxPageConcurrency ]

\* The sites processed at a time: the workers of the site executor in
\* worker-pool mode, the one iteration of the for loop in sequential mode
SiteSlots(c) == IF SitePool(c) THEN c.site_concurrency ELSE 1

\* A site: waiting, inside final_url_and_domain (one request), inside
\* fetch_many (`left` fetches submitted and not started, `open` in flight),
\* or over.
WaitingSite == [ phase |-> "waiting", open |-> 0, left |-> 0 ]

NonCapParked == CtlParked /\ RankParked /\ ScoreParked /\ SiteParked /\ FetchParked
    /\ ExtractParked /\ PipeParked

CapInit ==
    /\ NonCapParked
    /\ cp_cfg \in CapConfigs
    /\ cp_sites \in { [ s \in 1..n |-> WaitingSite ] : n \in 1..MaxCapSites }

ActiveSites == { s \in DOMAIN cp_sites : cp_sites[s].phase \in { "resolving", "fetching" } }

\* scrape_site is entered for the next site: final_url_and_domain sends its request.
CapSiteStart ==
    /\ Cardinality(ActiveSites) < SiteSlots(cp_cfg)
    /\ \E s \in DOMAIN cp_sites :
          /\ cp_sites[s].phase = "waiting"
          /\ \A t \in DOMAIN cp_sites : t < s => cp_sites[t].phase # "waiting"
          /\ cp_sites' = [ cp_sites EXCEPT ![s] = [ phase |-> "resolving", open |-> 1, left |-> 0 ] ]
    /\ UNCHANGED << cp_cfg, nonCapVars >>

\* final_url_and_domain returns and fetch_many submits the candidate pages,
\* or it raises and the site is over.
CapResolved ==
    /\ \E s \in DOMAIN cp_sites : \E raised \in BOOLEAN :
          /\ cp_sites[s].phase = "resolving"
          /\ cp_sites' = [ cp_sites EXCEPT ![s] =
                             IF raised THEN [ phase |-> "over", open |-> 0, left |-> 0 ]
                             ELSE [ phase |-> "fetching", open |-> 0, left |-> MaxPages ] ]
    /\ UNCHANGED << cp_cfg, nonCapVars >>

\* A free worker of the site's page executor starts a fetch.
CapPageStart ==
    /\ \E s \in DOMAIN cp_sites :
          /\ cp_sites[s].phase = "fetching"
          /\ cp_sites[s].left > 0
          /\ cp_sites[s].open < PoolSize(cp_cfg.page_concurrency)
          /\ cp_sites' = [ cp_sites EXCEPT ![s].open = @ + 1, ![s].left = @ - 1 ]
    /\ UNCHANGED << cp_cfg, nonCapVars >>

\* A fetch returns.
CapPageDone ==
    /\ \E s \in DOMAIN cp_sites :
          /\ cp_sites[s].phase = "fetching"
          /\ cp_sites[s].open > 0
          /\ cp_sites' = [ cp_sites EXCEPT ![s].open = @ - 1 ]
    /\ UNCHANGED << cp_cfg, nonCapVars >>

\* fetch_many has returned; scrape_site returns.
CapSiteDone ==
    /\ \E s \in DOMAIN cp_sites :
          /\ cp_sites[s].phase = "fetching"
          /\ cp_sites[s].left = 0
          /\ cp_sites[s].open = 0
          /\ cp_sites' = [ cp_sites EXCEPT ![s].phase = "over" ]
    /\ UNCHANGED << cp_cfg, nonCapVars >>

CapNext == CapSiteStart \/ CapResolved \/ CapPageStart \/ CapPageDone \/ CapSiteDone

SpecCaps == CapInit /\ [][CapNext]_vars

\* ------------------------------------------------------------------------
\* extract_emails on its own: pages that write one address in prose
\* ------------------------------------------------------------------------
\* The prose before the address
ProseBefore ==
    { <<>>,
      <<"contact", " ", "us", " ", "at", " ">>,
      <<"look", " ", "at", " ", "example", ".", "com", " ", "or", " ">>,
      <<"write", " ", "to", " ">>,
      <<"mail", ",", " ">> }

\* jane@acme.com, as pages write it
WrittenAddresses ==
    { <<"jane", " ", "[", "at", "]", " ", "acme", " ", "[", "dot", "]", " ", "com">>,
      <<"Jane", " ", "[", "AT", "]", " ", "Acme", " ", "[", "DOT", "]", " ", "com">>,
      <<"jane", "[", "at", "]", "acme", "[", "dot", "]", "com">>,
      <<"jane", " ", "(", "at", ")", " ", "acme", " ", "(", "dot", ")", " ", "com">>,
      <<"jane", " ", "AT", " ", "acme", " ", "DOT", " ", "com">>,
      <<"jane", "&#64;", "acme", ".", "com">> }

\* The prose after the address
ProseAfter ==
    { <<>>,
      <<" ", "today">>,
      <<" ", "at", " ", "once">>,
      <<".", " ", "call", " ", "us">> }

PageTexts == { b \o w \o a : b \in ProseBefore, w \in WrittenAddresses, a \in ProseAfter }

NonExtractParked == CtlParked /\ RankParked /\ ScoreParked /\ SiteParked /\ FetchParked
    /\ CapParked /\ PipeParked

ExtractInit ==
    /\ NonExtractParked
    /\ ex_pc = "page"
    /\ ex_html \in PageTexts
    /\ ex_emails = {}

\* emails = extract_emails(html)
Extract ==
    /\ ex_pc = "page"
    /\ ex_emails' = extract_emails(ex_html)
    /\ ex_pc' = "extracted"
    /\ UNCHANGED << ex_html, nonExtractVars >>

ExtractNext == Extract

SpecExtract == ExtractInit /\ [][ExtractNext]_vars

\* ------------------------------------------------------------------------
\* pipeline_runner (src/pipeline_runner.py)
\* ------------------------------------------------------------------------
\* The files of the pipeline.  A file is "absent" or holds the data of a
\* seed list: the one of an "earlier" pipeline run or the "current" one.
PipeFiles ==
    { "RAW", "MERGED", "PROFILED", "TAGGED", "CLEANED", "SCORED", "ENRICHED",
      "RESCORED", "OUTREACH", "SMARTLEAD_CSV" }

\* The steps that require one file and run one script on it
PlainSteps == { 1, 2, 3, 4, 5, 7, 8 }
StepInput(k) ==
    CASE k = 1 -> "RAW"      [] k = 2 -> "MERGED"  [] k = 3 -> "PROFILED"
      [] k = 4 -> "TAGGED"   [] k = 5 -> "CLEANED" [] k = 7 -> "ENRICHED"
      [] k = 8 -> "RESCORED"
StepOutput(k) ==
    CASE k = 1 -> "MERGED"   [] k = 2 -> "PROFILED" [] k = 3 -> "TAGGED"
      [] k = 4 -> "CLEANED"  [] k = 5 -> "SCORED"   [] k = 7 -> "RESCORED"
      [] k = 8 -> "OUTREACH"

\* start = max(1, min(9, args.from_step)); end = max(1, min(9, args.to_step))
WindowStart(args) == Max(1, Min(9, args.from_step))
WindowEnd(args) == Max(1, Min(9, args.to_step))
InWindow(k, args) == k >= WindowStart(args) /\ k <= WindowEnd(args)

\* The command lines and environments
PipeArgs ==
    [ from_step : { 0, 1, 5, 6, 7, 8 }, to_step : { 6, 7, 12 },
      skip_snov : BOOLEAN, snov_creds : BOOLEAN,
      skip_stub : BOOLEAN, openai_key : BOOLEAN ]

\* The output directory before the run: empty, or left by an earlier run
\* that stopped after any of its steps
PipeDirs ==
    { [ f \in PipeFiles |->
          IF f = "RAW" THEN raw
          ELSE IF f \in { "MERGED", "PROFILED", "TAGGED", "CLEANED" } THEN up
          ELSE IF f = "SCORED" THEN sc
          ELSE IF f = "ENRICHED" THEN en
          ELSE IF f = "RESCORED" THEN re
          ELSE "absent" ] :
        raw \in { "absent", "current" }, up \in { "absent", "earlier" },
        sc \in { "absent", "earlier" }, en \in { "absent", "earlier" },
        re \in { "absent", "earlier" } }

\* main goes on to the next step, or has passed the last one
Advance ==
    IF pp_step = 9 THEN pp_pc' = "finished" /\ pp_step' = pp_step
    ELSE pp_pc' = "step" /\ pp_step' = pp_step + 1

\* raise SystemExit
Exit == pp_pc' = "exit" /\ pp_step' = pp_step

NonPipeParked == CtlParked /\ RankParked /\ ScoreParked /\ SiteParked /\ FetchParked
    /\ CapParked /\ ExtractParked

PipeInit ==
    /\ NonPipeParked
    /\ pp_pc = "args"
    /\ pp_step = 0
    /\ pp_args \in PipeArgs
    /\ pp_files \in PipeDirs

\* if start > end: raise SystemExit
PipeStart ==
    /\ pp_pc = "args"
    /\ IF WindowStart(pp_args) > WindowEnd(pp_args) THEN Exit
       ELSE pp_pc' = "step" /\ pp_step' = 1
    /\ UNCHANGED << pp_args, pp_files, nonPipeVars >>

\* A step outside the window is passed over.
SkipStep ==
    /\ pp_pc = "step"
    /\ ~InWindow(pp_step, pp_args)
    /\ Advance
    /\ UNCHANGED << pp_args, pp_files, nonPipeVars >>

\* require(input); run([script, input, output]): the script exits with 0
\* and has written its output, or with another code and run raises.
PlainStep ==
    /\ pp_pc = "step"
    /\ pp_step \in PlainSteps
    /\ InWindow(pp_step, pp_args)
    /\ IF pp_files[StepInput(pp_step)] = "absent"
       THEN Exit /\ pp_files' = pp_files
       ELSE \/ /\ pp_files' = [ pp_files EXCEPT ![StepOutput(pp_step)] =
                                                   pp_files[StepInput(pp_step)] ]
               /\ Advance
            \/ Exit /\ pp_files' = pp_files
    /\ UNCHANGED << pp_args, nonPipeVars >>

\* Step 6 with do_snov: require(SCORED); without credentials the step only
\* prints that it is skipped, with them snov_enrich.py runs.
SnovStep ==
    /\ pp_pc = "step"
    /\ pp_step = 6
    /\ InWindow(6, pp_args)
    /\ ~pp_args.skip_snov
    /\ IF pp_files["SCORED"] = "absent"
       THEN Exit /\ pp_files' = pp_files
       ELSE IF ~pp_args.snov_creds
       THEN Advance /\ pp_files' = pp_files
       ELSE \/ /\ pp_files' = [ pp_files EXCEPT !["ENRICHED"] = pp_files["SCORED"] ]
               /\ Advance
            \/ Exit /\ pp_files' = pp_files
    /\ UNCHANGED << pp_args, nonPipeVars >>

\* Step 6 with --skip-snov: if not ENRICHED.exists() and SCORED.exists():
\* ENRICHED.write_bytes(SCORED.read_bytes())
PassThrough(files) ==
    IF files["ENRICHED"] = "absent" /\ files["SCORED"] # "absent"
    THEN [ files EXCEPT !["ENRICHED"] = files["SCORED"] ]
    ELSE files

SnovSkippedStep ==
    /\ pp_pc = "step"
    /\ pp_step = 6
    /\ InWindow(6, pp_args)
    /\ pp_args.skip_snov
    /\ pp_files' = PassThrough(pp_files)
    /\ Advance
    /\ UNCHANGED << pp_args, nonPipeVars >>

\* Step 9: skipped by flag or without OPENAI_API_KEY, else
\* require(RESCORED) and email_stub_generator.py
StubStep ==
    /\ pp_pc = "step"
    /\ pp_step = 9
    /\ InWindow(9, pp_args)
    /\ IF pp_args.skip_stub
       THEN Advance /\ pp_files' = pp_files
       ELSE IF pp_files["RESCORED"] = "absent"
       THEN Exit /\ pp_files' = pp_files
       ELSE IF ~pp_args.openai_key
       THEN Advance /\ pp_files' = pp_files
       ELSE \/ /\ pp_files' = [ pp_files EXCEPT !["SMARTLEAD_CSV"] = pp_files["RESCORED"] ]
               /\ Advance
            \/ Exit /\ pp_files' = pp_files
    /\ UNCHANGED << pp_args, nonPipeVars >>

PipeNext == PipeStart \/ SkipStep \/ PlainStep \/ SnovStep \/ SnovSkippedStep \/ StubStep

SpecPipe == PipeInit /\ [][PipeNext]_vars

\* ------------------------------------------------------------------------
\* Properties of the Contact Ranker (checked under SpecRank)
\* ------------------------------------------------------------------------
Ranked == rk_pc = "ranked"
OutIdx == 1..Len(rk_out)
InSamePartition(e1, e2) == SameDomain(rk_domain, e1) = SameDomain(rk_domain, e2)

InfoAtX == Mail(<<"i","n","f","o">>, DomX)
JaneDoeAtX == Mail(<<"j","a","n","e",".","d","o","e">>, DomX)

\* C7: pick_best_emails returns a duplicate-free list of at most
\* MAX_EMAILS_PER_DOMAIN entries, each a member of the input set.
C7_BoundedOutput ==
    Ranked =>
        /\ Len(rk_out) <= MAX_EMAILS_PER_DOMAIN
        /\ \A i, j \in OutIdx : i # j => rk_out[i] # rk_out[j]
        /\ \A i \in OutIdx : rk_out[i] \in rk_emails

\* C7 witness: more candidates than the maximum were ranked and cut to it.
C7_Witness ==
    /\ Ranked
    /\ Cardinality(rk_emails) > MAX_EMAILS_PER_DOMAIN
    /\ Len(rk_out) = MAX_EMAILS_PER_DOMAIN

\* C8: no external email precedes a same-domain email, and an external email
\* is returned only when fewer than MAX_EMAILS_PER_DOMAIN same-domain emails
\* exist, whatever the classes (role, named) of the emails.
C8_SameDomainFirst ==
    Ranked =>
        /\ \A i, j \in OutIdx :
              i < j => ~(~SameDomain(rk_domain, rk_out[i]) /\ SameDomain(rk_domain, rk_out[j]))
        /\ (\E i \in OutIdx : ~SameDomain(rk_domain, rk_out[i])) =>
              Cardinality({ e \in rk_emails : SameDomain(rk_domain, e) }) < MAX_EMAILS_PER_DOMAIN

\* C8 witness: a same-domain role address is ranked before an external named one.
C8_Witness ==
    /\ Ranked
    /\ \E i, j \in OutIdx :
          /\ i < j
          /\ SameDomain(rk_domain, rk_out[i]) /\ IsRole(rk_out[i])
          /\ ~SameDomain(rk_domain, rk_out[j]) /\ ~IsRole(rk_out[j])

\* C9: within each partition of the returned list every named email precedes
\* every role email; {info@x.com, jane.doe@x.com} for x.com is ranked
\* jane.doe@x.com, info@x.com.
C9_NamedBeforeRole ==
    Ranked =>
        /\ \A i, j \in OutIdx :
              (i < j /\ InSamePartition(rk_out[i], rk_out[j]))
                  => ~(IsRole(rk_out[i]) /\ ~IsRole(rk_out[j]))
        /\ (rk_domain = DomX /\ rk_emails = { InfoAtX, JaneDoeAtX })
              => rk_out = << JaneDoeAtX, InfoAtX >>

\* C9 witness: the pair of the example has been ranked.
C9_Witness ==
    /\ Ranked
    /\ rk_domain = DomX
    /\ rk_emails = { InfoAtX, JaneDoeAtX }
    /\ rk_out = << JaneDoeAtX, InfoAtX >>

\* C10: of two emails of the same partition and the same class, the one with
\* the longer local part is ranked before the one with the shorter local part.
C10_LongerLocalFirst ==
    Ranked =>
        \A i, j \in OutIdx :
            (/\ i < j
             /\ InSamePartition(rk_out[i], rk_out[j])
             /\ IsRole(rk_out[i]) = IsRole(rk_out[j]))
                => Len(LocalPart(rk_out[i])) >= Len(LocalPart(rk_out[j]))

\* C11: the Contact Ranker is deterministic: two invocations on the same
\* domain and the same set of emails return the same ordered list, whatever
\* the order in which the set is enumerated, ties included.
C11_Deterministic ==
    rk_pc = "reranked" => rk_again = rk_out

\* ------------------------------------------------------------------------
\* Properties of the Run Controller
\* ------------------------------------------------------------------------
DataLines(lines) == { k \in 1..Len(lines) : lines[k].cells # HeaderLine.cells }

\* The seeds an earlier run completed and whose rows the output file held
\* when the current run started
CompletedBefore == { file0.lines[k].of.seed : k \in DataLines(file0.lines) }

\* The (company_name, url) pairs of the rows the output file held when the
\* current run started
RowPairs ==
    { << file0.lines[k].cells["company_name"], file0.lines[k].cells["url"] >> :
        k \in DataLines(file0.lines) }

ScrapedSeeds == { prospects[scraped[k]] : k \in 1..Len(scraped) }

\* The lines written for queue position q during the current run
WrittenFor(q) == { k \in 1..Len(written) : written[k].of.qi = q }

\* C1: with resume enabled, a seed that an earlier run completed and wrote to
\* the output file is never processed again (scrape_site is not called for
\* it) by a later run over the same input and output file.
C1_ResumeNeverReprocesses ==
    cfg.resume => ScrapedSeeds \cap CompletedBefore = {}

\* C2: with resume enabled and an existing output file, once the run is over,
\* every input seed whose stripped (company_name, url) equals the pair of a
\* row of that file was left out of the work queue and got no new row, and
\* every other seed inside the offset/limit window was processed.
C2_ResumeFilter ==
    (pc = "done" /\ cfg.resume /\ file0.exists) =>
        /\ \A s \in SeqToSet(ReadProspects(input)) :
              s \in RowPairs =>
                  /\ s \notin SeqToSet(prospects)
                  /\ \A k \in 1..Len(written) : written[k].of.seed # s
        /\ \A s \in SeqToSet(window) : s \notin RowPairs => s \in ScrapedSeeds

\* C3: in sequential and in worker-pool mode, once a run without a write
\* failure is over, every seed whose processing raised has exactly one row,
\* with reason "error:site", and every other processed seed has a row.
C3_ErrorRowPerFailedSeed ==
    (pc = "done" /\ ~write_failed) =>
        /\ \A q \in raisedQ :
              /\ Cardinality(WrittenFor(q)) = 1
              /\ \A k \in WrittenFor(q) : written[k].cells["reason"] = <<"error:site">>
        /\ \A q \in SeqToSet(scraped) \ raisedQ : WrittenFor(q) # {}

\* C4: after a run that wrote at least one chunk, whatever the append and
\* resume flags, the number of chunks and the earlier content of the file,
\* the output file holds the header row exactly once, as its first line.
C4_HeaderOnceFirst ==
    (pc = "done" /\ written # <<>>) =>
        /\ file.lines # <<>>
        /\ file.lines[1].cells = HeaderLine.cells
        /\ \A k \in 2..Len(file.lines) : file.lines[k].cells # HeaderLine.cells

\* C5: whatever the append flag, the rows a chunk write of the current run
\* put into the output file are still there, unaltered and in order, after
\* every later chunk write of the run.
C5_AppendOnly ==
    LET ofRun == { file.lines[k] : k \in { j \in 1..Len(file.lines) : file.lines[j].of.run = runs } }
    IN  FilterSeq(file.lines, ofRun) = written

\* C6: no site of chunk N+1 starts being processed before every site of
\* chunk N has finished and the write step of chunk N is over, in sequential
\* and in worker-pool mode.
C6_ChunksInOrder ==
    \A site \in sitesRunning \cup sitesDone :
        site[1] >= 2 =>
            /\ chunkWritten[site[1] - 1]
            /\ \A k \in 1..chunkLen[site[1] - 1] : << site[1] - 1, k >> \in sitesDone

\* C6 witness: the worker pool processes a site of the second chunk after a
\* first chunk of two sites.
C6_Witness ==
    /\ SitePool(cfg)
    /\ chunkLen # <<>>
    /\ chunkLen[1] >= 2
    /\ \E site \in sitesRunning : site[1] = 2

\* C21: when the input CSV is missing or unreadable, run fails at once: no
\* seed is processed, no request is made, and the output file is neither
\* created nor modified.
C21_MissingInputFailsFast ==
    (~input_readable /\ runs > 0) =>
        /\ pc = "failed"
        /\ scraped = <<>>
        /\ trace = <<>>
        /\ sitesRunning = {} /\ sitesDone = {}
        /\ written = <<>>
        /\ file = file0

\* A run failed on its input while an output file of an earlier use
\* existed; the file is as it was.
C21_Witness ==
    /\ pc = "failed"
    /\ ~input_readable
    /\ file = EarlierFile

\* C24: a run that got past reading its input terminates, and when it has
\* terminated a written, loadable output file (the header, then zero or more
\* rows) exists at the output path, also when the work queue was empty and
\* when a chunk write failed.
C24_OutputFileWritten ==
    pc = "done" =>
        /\ file.exists
        /\ file.lines # <<>>
        /\ file.lines[1].cells = HeaderLine.cells

\* int(cell) of a score cell
ScoreValue(cell) == CHOOSE n \in { 0, 60, 70, 90 } : IntStr(n) = cell

\* C25: every row the Run Controller writes to the output file has a score
\* that is an integer in 0..10.
C25_ScoreInRange ==
    \A k \in DOMAIN written :
        written[k].cells # HeaderLine.cells =>
            ScoreValue(written[k].cells["score"]) \in 0..10

\* The queue positions that have a row of this run in the output file
QueuePositionsInFile ==
    { file.lines[k].of.qi : k \in { j \in DOMAIN file.lines : file.lines[j].of.run = runs } }

\* C27: after a run that completed without a write failure every seed of
\* the work queue has at least one row in the output file, in sequential and
\* in worker-pool mode, also when two seeds of a chunk share a company_name
\* and when the processing of a seed raised.
C27_EverySeedHasRow ==
    (pc = "done" /\ ~write_failed) =>
        \A qi \in 1..Len(prospects) : qi \in QueuePositionsInFile

\* How often scrape_site was called for the queue position qi
TimesProcessed(qi) == Cardinality({ k \in DOMAIN scraped : scraped[k] = qi })

\* C28: for every chunk_size, 0 and negative values included, the chunks
\* partition the work queue in order: every queued seed belongs to exactly
\* one chunk and is processed exactly once in the run.
C28_ChunksPartitionQueue ==
    pc = "done" => \A qi \in 1..Len(prospects) : TimesProcessed(qi) = 1

\* The positions of the site events of the trace
SiteEvents == { k \in 1..Len(trace) : trace[k].ev = "site" }
SleepEvents == { k \in 1..Len(trace) : trace[k].ev = "sleep" }

\* C18: in sequential mode a politeness sleep occurs between the processing
\* of any two consecutive sites, also when the earlier site failed; in
\* worker-pool mode no politeness sleep ever occurs.
C18_PolitenessSleep ==
    /\ ~SitePool(cfg) =>
          \A i \in SiteEvents : \A j \in SiteEvents :
              i < j => \E k \in SleepEvents : i < k /\ k < j
    /\ SitePool(cfg) => SleepEvents = {}

\* Sequential mode: a site failed, the loop slept, the next site was processed.
C18_Witness ==
    /\ ~SitePool(cfg)
    /\ \E i \in SiteEvents :
          /\ trace[i].qi \in raisedQ
          /\ i + 2 \in SiteEvents
          /\ i + 1 \in SleepEvents

\* ------------------------------------------------------------------------
\* Properties of the Lead Scorer (checked under SpecScore)
\* ------------------------------------------------------------------------
Scored == sc_pc \in { "scored", "rescored" }

\* C12: for every input row compute_score returns an integer in 0..10, and
\* tier maps it to exactly one of A, B, C: A iff score >= 8, B iff
\* 5 <= score < 8, C iff score < 5.
C12_ScoreRangeAndTier ==
    Scored =>
        /\ sc_score \in 0..10
        /\ sc_tier \in { "A", "B", "C" }
        /\ (sc_tier = "A" <=> sc_score >= 8)
        /\ (sc_tier = "B" <=> (5 <= sc_score /\ sc_score < 8))
        /\ (sc_tier = "C" <=> sc_score < 5)

\* A row whose signals add up to more than 10 was scored 10, tier A.
C12_Witness ==
    /\ sc_pc = "scored"
    /\ ScoreSum(ReadRow(sc_raw)) > 10
    /\ sc_score = 10
    /\ sc_tier = "A"

\* The signals of a row, read off the texts of its cells (the cell of a
\* column the file does not have is empty).
CellText(raw, c) == IF raw[c].present THEN raw[c].text ELSE <<>>
HasText(raw, c) == Strip(CellText(raw, c)) # <<>>

FitSignal(raw) ==
    IF Lower(Strip(CellText(raw, "product_fit"))) \in { <<"1">>, <<"true">>, <<"yes">>, <<"y">> }
    THEN 1 ELSE 0

ContactPoints(raw) ==
    LET cq == CellText(raw, "contact_quality")
        email == IF HasText(raw, "email") THEN Strip(CellText(raw, "email"))
                 ELSE Strip(CellText(raw, "email_final"))
    IN  IF cq = <<"named_email">> THEN 3
        ELSE IF cq = <<"role_email">> THEN 2
        ELSE IF cq = <<"phone_only">> THEN 1
        ELSE IF email # <<>> THEN (IF is_role_email(email) THEN 2 ELSE 3)
        ELSE IF HasText(raw, "phone") THEN 1
        ELSE 0

VerificationPoints(raw) ==
    LET s == Lower(Strip(CellText(raw, "verification_status")))
    IN  IF s \in GOOD_VERIF_2 THEN 2 ELSE IF s \in GOOD_VERIF_1 THEN 1 ELSE 0

SocialSignal(raw) == IF HasText(raw, "linkedin_url") THEN 1 ELSE 0

PlantSignal(raw) ==
    IF Lower(CellText(raw, "business_type")) = <<"producer_plant">> THEN 1 ELSE 0

ConfidenceSignal(raw) ==
    LET t == Strip(CellText(raw, "profile_confidence"))
    IN  IF t \in Numerals /\ NumeralValue(t) >= 80 THEN 1 ELSE 0

Signals(raw) ==
    << FitSignal(raw), ContactPoints(raw), VerificationPoints(raw),
       SocialSignal(raw), PlantSignal(raw), ConfidenceSignal(raw) >>

\* Exactly one signal of `after` is higher than in `before`; the others are equal.
ImprovesOneSignal(before, after) ==
    \E k \in 1..6 :
        /\ Signals(after)[k] > Signals(before)[k]
        /\ \A m \in (1..6) \ { k } : Signals(after)[m] = Signals(before)[m]

TierRank(t) == IF t = "A" THEN 3 ELSE IF t = "B" THEN 2 ELSE 1

\* C13: compute_score is monotone in each signal: a row that improves
\* exactly one signal of another row, the others fixed, never has a lower
\* score, nor a lower tier.
C13_Monotone ==
    (sc_pc = "rescored" /\ ImprovesOneSignal(sc_prev.raw, sc_raw)) =>
        /\ sc_score >= sc_prev.score
        /\ TierRank(sc_tier) >= TierRank(sc_prev.tier)

\* C14: the score of every row is min(10, 4*[product_fit] + contact points
\* + verification points + [social-profile URL present] + [business_type =
\* producer_plant] + [profile_confidence >= 80]), also for rows whose cells
\* are empty in the input CSV.
C14_ScoreFormula ==
    Scored =>
        sc_score = Min(10, 4 * FitSignal(sc_raw) + ContactPoints(sc_raw)
                           + VerificationPoints(sc_raw) + SocialSignal(sc_raw)
                           + PlantSignal(sc_raw) + ConfidenceSignal(sc_raw))

\* ------------------------------------------------------------------------
\* Properties of scrape_site and mx_present (checked under SpecSite)
\* ------------------------------------------------------------------------
\* fetch_many was called and returned None for every candidate page
NothingFetched ==
    /\ st_pc = "scraped"
    /\ ~final_url_and_domain(st_url, st_net).raised
    /\ Fetched(st_net.pages) = {}

C16_ConfidenceByClass ==
    (st_pc = "scraped" /\ ~st_res.raised) =>
        /\ \A k \in 1..Len(st_res.rows) :
              LET r == st_res.rows[k]
              IN  r.email_final # <<>> =>
                    IF LocalPart(r.email_final) \in ROLE_EMAILS
                    THEN r.score = 70 /\ r.qualified = "maybe"
                    ELSE r.score = 90 /\ r.qualified = "yes"
        /\ (CollectedEmails(st_net.pages) = {} /\ CollectedPhones(st_net.pages) # {}) =>
              /\ Len(st_res.rows) = 1
              /\ st_res.rows[1].reason = "phone_only"
              /\ st_res.rows[1].qualified = "maybe"

\* A site yielded a named email and a role email.
C16_Witness ==
    /\ st_pc = "scraped"
    /\ \E k \in 1..Len(st_res.rows) :
          st_res.rows[k].score = 90 /\ st_res.rows[k].email_final # <<>>
    /\ \E k \in 1..Len(st_res.rows) :
          st_res.rows[k].score = 70 /\ LocalPart(st_res.rows[k].email_final) \in ROLE_EMAILS

\* C22: final_url_and_domain never raises; a seed without an http:// or
\* https:// prefix is worked on with https:// prepended, and when the request
\* fails the result is the normalized URL with the domain of that URL's host.
C22_NeverRaises ==
    st_pc = "scraped" =>
        LET r == final_url_and_domain(st_url, st_net)
            url == normalize_url(st_url)
        IN  /\ ~r.raised
            /\ (Head(Strip(st_url)) \notin Schemes) => url = <<"https://">> \o Strip(st_url)
            /\ ~st_net.resolved => (r.final = url /\ r.domain = RegDomain(url))

\* The cells of a row of the Run Controller's output file under the columns
\* lead_scoring reads; the file has no email and no contact_quality column.
ScorerCells(r) ==
    [ col \in ScoreColumns |->
        IF col \in { "email_final", "phone" } THEN Cell(r[col]) ELSE AbsentCell ]

\* C29: the Run Controller and the Lead Scorer agree on role versus named:
\* an email that scrape_site emits as role (confidence 70) is inferred as
\* role_email by lead_scoring, one it emits as named (confidence 90,
\* qualified "yes") is inferred as named_email.
C29_RoleNamedAgree ==
    (st_pc = "scraped" /\ ~st_res.raised) =>
        \A k \in 1..Len(st_res.rows) :
            LET r == st_res.rows[k]
                cq == infer_contact_quality(ReadRow(ScorerCells(r)))
            IN  r.email_final # <<>> =>
                  /\ r.score = 70 => cq = <<"role_email">>
                  /\ (r.score = 90 /\ r.qualified = "yes") => cq = <<"named_email">>

\* The rows the Run Controller collects for the seed
SiteRows ==
    IF st_res.raised THEN << ErrorRow(st_company, st_url) >> ELSE st_res.rows

VerificationStatuses == { "mx_present", "no_mx", "unknown" }

\* C20: mx_present returns one of "mx_present", "no_mx", "unknown":
\* "unknown" whenever the domain is empty or DNS resolution is unavailable,
\* "no_mx" for any resolution error; every row the Run Controller collects
\* carries a verification_status of that set.
C20_VerificationStatus ==
    /\ st_pc = "validated" =>
          /\ st_mx.result \in VerificationStatuses
          /\ (st_mx.domain = <<>> \/ ~st_mx.dns_available) => st_mx.result = "unknown"
          /\ (st_mx.domain # <<>> /\ st_mx.dns_available /\ st_mx.lookup = "error")
                => st_mx.result = "no_mx"
    /\ st_pc = "scraped" =>
          \A k \in 1..Len(SiteRows) :
              SiteRows[k].verification_status \in VerificationStatuses

\* mx_present was asked about the empty domain while the resolver fails.
C20_Witness ==
    /\ st_pc = "validated"
    /\ st_mx.domain = <<>>
    /\ st_mx.dns_available
    /\ st_mx.lookup = "error"
    /\ st_mx.result = "unknown"

\* ------------------------------------------------------------------------
\* Properties of fetch_many (checked under SpecFetch)
\* ------------------------------------------------------------------------
\* The response declares an HTML content type, in any letter case
HtmlContentType(answer) ==
    \E k \in DOMAIN answer.ctype : answer.ctype[k] \in { "text/html", "Text/HTML" }

\* C19: fetch_many returns a mapping whose key set is exactly the set of
\* requested URLs; the value of a URL is its HTML only when the response
\* has status < 400 and an HTML content type, and None on timeout,
\* connection error, error status or non-HTML content.
C19_FetchManyMapping ==
    /\ fm_pc \in { "call", "returned" } => DOMAIN fm_results = SeqToSet(fm_urls)
    /\ fm_pc = "returned" =>
          \A i \in DOMAIN fm_urls :
              LET a == fm_answer[i]
                  r == fm_results[fm_urls[i]]
              IN  /\ ~r.none =>
                        /\ a.kind = "response"
                        /\ a.status < 400
                        /\ HtmlContentType(a)
                        /\ r.html = a.text
                  /\ (a.kind # "response" \/ a.status >= 400 \/ ~HtmlContentType(a)) => r.none

\* A call returned with the HTML of one page and None for an error status.
C19_Witness ==
    /\ fm_pc = "returned"
    /\ \E i \in DOMAIN fm_urls :
          ~fm_results[fm_urls[i]].none /\ fm_results[fm_urls[i]].html = <<"<html>">>
    /\ \E i \in DOMAIN fm_urls :
          fm_answer[i].status = 404 /\ fm_results[fm_urls[i]].none
    /\ \E i \in DOMAIN fm_urls : fm_answer[i].kind = "timeout"

\* for p, html in page_html_map.items(): ... if e not in collected_emails:
\* collected_emails[e] = p.  The page recorded for each email.
collected_emails(keys, results) ==
    LET held == [ k \in 1..Len(keys) |->
                    IF results[keys[k]].none THEN {}
                    ELSE extract_emails(results[keys[k]].html) ]
    IN  [ e \in UNION { held[k] : k \in DOMAIN held } |->
            keys[CHOOSE k \in DOMAIN held :
                    e \in held[k] /\ \A j \in DOMAIN held : e \in held[j] => k <= j] ]

\* The emails each candidate page holds, None counting as no email
EmailsByPage ==
    [ i \in DOMAIN fm_urls |->
        IF fetch(fm_answer[i]).none THEN {} ELSE extract_emails(fetch(fm_answer[i]).html) ]

\* The candidate pages, of those holding emails as in found, that hold e
PagesHolding(found, e) == { i \in DOMAIN found : e \in found[i] }

\* C26: the source_url recorded for an email a site yields is the first page,
\* in candidate-path order, whose HTML contains the email, whatever the order
\* in which the page fetches completed.
C26_FirstSeenSource ==
    fm_pc = "returned" =>
        LET found == EmailsByPage
            source_url == collected_emails(fm_keys, fm_results)
        IN  /\ DOMAIN source_url = UNION { found[i] : i \in DOMAIN found }
            /\ \A e \in DOMAIN source_url :
                  LET holding == PagesHolding(found, e)
                      first == CHOOSE i \in holding : \A j \in holding : i <= j
                  IN  source_url[e] = fm_urls[first]

\* Two pages hold the same email and the later page completed first.
C26_Witness ==
    /\ fm_pc = "returned"
    /\ LET found == EmailsByPage
           source_url == collected_emails(fm_keys, fm_results)
       IN  \E e \in DOMAIN source_url : \E i, j \in PagesHolding(found, e) :
              /\ i < j
              /\ FirstIndex(fm_completed, j, 1) < FirstIndex(fm_completed, i, 1)
              /\ source_url[e] = fm_urls[i]

\* ------------------------------------------------------------------------
\* Properties of the concurrency caps (checked under SpecCaps)
\* ------------------------------------------------------------------------
RECURSIVE OpenUpTo(_)
OpenUpTo(s) == IF s = 0 THEN 0 ELSE cp_sites[s].open + OpenUpTo(s - 1)

\* The HTTP requests in flight
OpenRequests == OpenUpTo(Len(cp_sites))

\* C17, as stated: at every moment at most site_concurrency sites are being
\* processed, each site has at most max(1, page_concurrency) requests in
\* flight, and the open requests never exceed
\* site_concurrency * page_concurrency.
C17_CapsAsStated ==
    /\ Cardinality(ActiveSites) <= cp_cfg.site_concurrency
    /\ \A s \in DOMAIN cp_sites : cp_sites[s].open <= Max(1, cp_cfg.page_concurrency)
    /\ OpenRequests <= cp_cfg.site_concurrency * cp_cfg.page_concurrency

\* C17, amended: at every moment at most max(1, site_concurrency) sites are
\* being processed, each site has at most max(1, page_concurrency) requests
\* in flight, and the open requests never exceed
\* max(1, site_concurrency) * max(1, page_concurrency).
C17_Caps ==
    /\ Cardinality(ActiveSites) <= Max(1, cp_cfg.site_concurrency)
    /\ \A s \in DOMAIN cp_sites : cp_sites[s].open <= Max(1, cp_cfg.page_concurrency)
    /\ OpenRequests <= Max(1, cp_cfg.site_concurrency) * Max(1, cp_cfg.page_concurrency)

\* With --page-concurrency 0 and two site workers, two sites each have a
\* page fetch in flight: the amended cap is reached.
C17_Witness ==
    /\ cp_cfg.site_concurrency = 2
    /\ cp_cfg.page_concurrency = 0
    /\ Cardinality({ s \in DOMAIN cp_sites :
                       cp_sites[s].phase = "fetching" /\ cp_sites[s].open = 1 }) = 2
    /\ OpenRequests = 2

\* ------------------------------------------------------------------------
\* Properties of extract_emails (checked under SpecExtract)
\* ------------------------------------------------------------------------
JaneAtAcme == <<"jane", "@", "acme", ".", "com">>

\* The page writes the address as local [at] domain [dot] tld
WrittenWithBrackets(html) == \E k \in DOMAIN html : html[k] = "["

\* The spec's example: "contact us at jane [at] acme [dot] com"
ContactUsAtJane ==
    <<"contact", " ", "us", " ", "at", " ",
      "jane", " ", "[", "at", "]", " ", "acme", " ", "[", "dot", "]", " ", "com">>

\* C23: for "contact us at jane [at] acme [dot] com", and for any address
\* written as local [at] domain [dot] tld inside ordinary prose,
\* extract_emails returns exactly the set of the lower-cased address
\* local@domain.tld and no other candidate.
C23_DeobfuscatedAddressOnly ==
    (ex_pc = "extracted" /\ WrittenWithBrackets(ex_html)) => ex_emails = { JaneAtAcme }

\* The part of C23 that is the spec's example
C23_SpecExample ==
    (ex_pc = "extracted" /\ ex_html = ContactUsAtJane) => ex_emails = { JaneAtAcme }

\* ------------------------------------------------------------------------
\* Properties of pipeline_runner (checked under SpecPipe)
\* ------------------------------------------------------------------------
\* Step 6 is over, was in the window and did not run the Snov enrichment;
\* step 7 is in the window and is the next step.
Step6PassedWithoutSnov ==
    /\ pp_pc = "step"
    /\ pp_step = 7
    /\ InWindow(6, pp_args)
    /\ InWindow(7, pp_args)
    /\ pp_args.skip_snov \/ ~pp_args.snov_creds

\* C30: whenever the step window includes steps 6 and 7 and step 6 does not
\* run the Snov enrichment (--skip-snov, or the credentials are missing),
\* step 7 still runs and re-scores the current output of step 5
\* (Scored_Leads.csv), not an absent or stale Scored_Leads_Enriched.csv.
C30_RescoresCurrentScored ==
    (Step6PassedWithoutSnov /\ pp_files["SCORED"] # "absent") =>
        pp_files["ENRICHED"] = pp_files["SCORED"]

====
